---------------------------- MODULE Spec2Model ----------------------------
(***************************************************************************)
(* Settlement (liquidacion) validation engine of procesador:               *)
(* liquidacion.py (slot rules, catalog index, retention calculator) and    *)
(* the validation handlers of views.py.                                    *)
(*                                                                         *)
(* Decimal values are modelled exactly, by value, as a sign, a coefficient  *)
(* of any number of digits and a power of ten, the trailing zeros          *)
(* stripped; JSON strings are sequences of one-character strings.          *)
(***************************************************************************)
EXTENDS Integers, Sequences, FiniteSets, TLC

(***************************************************************************)
(* Exact decimals (python decimal.Decimal, compared by value)              *)
(***************************************************************************)
Abs(n) == IF n < 0 THEN 0 - n ELSE n

\* A coefficient is a natural number of any size, written as the sequence of
\* its decimal digits, the first digit first and no zero in front; zero is
\* the empty sequence.
RECURSIVE CifrasDe(_)
CifrasDe(n) == IF n <= 0 THEN <<>> ELSE Append(CifrasDe(n \div 10), n % 10)

Ceros(k) == IF k <= 0 THEN <<>> ELSE SubSeq([i \in 1..k |-> 0], 1, k)

SinCerosDelante(c) ==
    IF \A i \in 1..Len(c) : c[i] = 0 THEN <<>>
    ELSE SubSeq(c, CHOOSE i \in 1..Len(c) : c[i] # 0 /\ \A j \in 1..(i - 1) : c[j] = 0,
                Len(c))

\* the number of zeros at the end of c # 0
CerosDetras(c) ==
    Len(c) - (CHOOSE i \in 1..Len(c) : c[i] # 0 /\ \A j \in (i + 1)..Len(c) : c[j] = 0)

\* the number of digits of a coefficient, a zero counting one
NumDigitos(c) == IF c = <<>> THEN 1 ELSE Len(c)

\* a < b
CifrasMenor(a, b) ==
    IF Len(a) # Len(b) THEN Len(a) < Len(b)
    ELSE \E i \in 1..Len(a) : a[i] < b[i] /\ \A j \in 1..(i - 1) : a[j] = b[j]

\* c with zeros in front, n digits in all
AlAncho(c, n) == Ceros(n - Len(c)) \o c

Ancho(a, b) == IF Len(a) < Len(b) THEN Len(b) ELSE Len(a)

\* a + b of n digits each carries one into the place i: a place below i
\* makes ten or more, and every place between makes nine
Lleva(a, b, n, i) ==
    \E j \in (i + 1)..n :
        /\ a[j] + b[j] >= 10
        /\ \A k \in (i + 1)..(j - 1) : a[k] + b[k] = 9

SumaAncha(a, b, n) ==
    (IF Lleva(a, b, n, 0) THEN <<1>> ELSE <<>>)
    \o SubSeq([ i \in 1..n |->
                  (a[i] + b[i] + (IF Lleva(a, b, n, i) THEN 1 ELSE 0)) % 10 ], 1, n)

\* a + b
CifrasSuma(a, b) ==
    SumaAncha(AlAncho(a, Ancho(a, b)), AlAncho(b, Ancho(a, b)), Ancho(a, b))

\* a - b of n digits each borrows one from the place i: a place below i is
\* short, and every place between is level
Presta(a, b, n, i) ==
    \E j \in (i + 1)..n :
        /\ a[j] < b[j]
        /\ \A k \in (i + 1)..(j - 1) : a[k] = b[k]

RestaAncha(a, b, n) ==
    SubSeq([ i \in 1..n |->
                (a[i] - b[i] - (IF Presta(a, b, n, i) THEN 1 ELSE 0) + 10) % 10 ], 1, n)

\* a - b for a >= b
CifrasResta(a, b) == SinCerosDelante(RestaAncha(a, AlAncho(b, Len(a)), Len(a)))

\* a * d for a digit d, by doubling
Doble(a) == CifrasSuma(a, a)

PorCifra(a, d) ==
    CASE d = 0 -> <<>>
      [] d = 1 -> a
      [] d = 2 -> Doble(a)
      [] d = 3 -> CifrasSuma(Doble(a), a)
      [] d = 4 -> Doble(Doble(a))
      [] d = 5 -> CifrasSuma(Doble(Doble(a)), a)
      [] d = 6 -> Doble(CifrasSuma(Doble(a), a))
      [] d = 7 -> CifrasSuma(Doble(CifrasSuma(Doble(a), a)), a)
      [] d = 8 -> Doble(Doble(Doble(a)))
      [] OTHER -> CifrasSuma(Doble(Doble(Doble(a))), a)

\* a * b, one digit of b at a time; acc is a times the digits of b before j
RECURSIVE ProductoDesde(_, _, _, _)
ProductoDesde(a, b, j, acc) ==
    IF j > Len(b) THEN acc
    ELSE IF acc = <<>> THEN ProductoDesde(a, b, j + 1, PorCifra(a, b[j]))
    ELSE ProductoDesde(a, b, j + 1, CifrasSuma(Append(acc, 0), PorCifra(a, b[j])))

CifrasProducto(a, b) ==
    IF Len(a) < Len(b) THEN ProductoDesde(b, a, 1, <<>>) ELSE ProductoDesde(a, b, 1, <<>>)

\* c * 10^k
CifrasPorPow10(c, k) == IF c = <<>> THEN <<>> ELSE c \o Ceros(k)

\* the last k digits of c, k <= Len(c), are more than half a unit of the
\* digit before them, or exactly half
MasDeMitad(c, k) ==
    \/ c[Len(c) - k + 1] > 5
    \/ c[Len(c) - k + 1] = 5 /\ \E i \in (Len(c) - k + 2)..Len(c) : c[i] # 0

JustoMitad(c, k) ==
    c[Len(c) - k + 1] = 5 /\ \A i \in (Len(c) - k + 2)..Len(c) : c[i] = 0

\* c without its last k digits is odd
Impar(c, k) == Len(c) > k /\ c[Len(c) - k] % 2 = 1

\* The result of int(text), and the exponent that the text of a Decimal
\* spells, is an integer of any size: a sign and the digits of the
\* magnitude; zero has no sign.
Ent(neg, d) == [neg |-> neg /\ d # <<>>, d |-> d]

EntDe(n) == Ent(n < 0, CifrasDe(Abs(n)))

\* x + y of opposite signs, menor being |x| < |y|
EntDiferencia(x, y, menor) ==
    Ent(IF menor THEN y.neg ELSE x.neg,
        CifrasResta(IF menor THEN y.d ELSE x.d, IF menor THEN x.d ELSE y.d))

EntSuma(x, y) ==
    IF x.neg = y.neg THEN Ent(x.neg, CifrasSuma(x.d, y.d))
    ELSE EntDiferencia(x, y, CifrasMenor(x.d, y.d))

\* x + k for an integer k of the model
EntMas(x, k) == EntSuma(x, EntDe(k))

\* x < y
EntMenor(x, y) ==
    IF x.neg # y.neg THEN x.neg
    ELSE CifrasMenor(IF x.neg THEN y.d ELSE x.d, IF x.neg THEN x.d ELSE y.d)

\* a natural number of at most nine digits as an integer of the model
RECURSIVE CifrasAInt(_)
CifrasAInt(c) ==
    IF c = <<>> THEN 0 ELSE 10 * CifrasAInt(SubSeq(c, 1, Len(c) - 1)) + c[Len(c)]

\* The exponent of a Decimal lies between -1999999999999999997 and
\* 999999999999999999 (decimal.MIN_ETINY, decimal.MAX_EMAX), and the
\* arithmetic adds to it: it is kept as two integers of the model,
\* hi * 10^9 + lo with 0 <= lo < 10^9.
Exp(hi, lo) == [hi |-> hi, lo |-> lo]

\* the exponent n, for an integer n of the model
ExpDe(n) == Exp(n \div 1000000000, n % 1000000000)

\* x + k for an integer k of the model, -10^9 < k < 10^9
ExpMas(x, k) == Exp(x.hi + ((x.lo + k) \div 1000000000), (x.lo + k) % 1000000000)

\* x + y of two exponents.  A sum below -2 * 10^18 is written as -2 * 10^18:
\* both lie so far below Etiny that the context rounds the result to the
\* same zero.
ExpSuma(x, y) ==
    IF y.hi < 0 /\ x.hi < (0 - 2000000000) - y.hi THEN Exp(0 - 2000000000, 0)
    ELSE Exp(x.hi + y.hi + ((x.lo + y.lo) \div 1000000000), (x.lo + y.lo) % 1000000000)

\* x - y for x >= y
ExpResta(x, y) ==
    Exp(x.hi - y.hi + ((x.lo - y.lo) \div 1000000000), (x.lo - y.lo) % 1000000000)

\* x < y
ExpMenor(x, y) == x.hi < y.hi \/ (x.hi = y.hi /\ x.lo < y.lo)

\* x > k for an integer k of the model
ExpMayorQue(x, k) == ExpMenor(ExpDe(k), x)

\* an exponent of at most nine digits as an integer of the model
ExpInt(x) == x.hi * 1000000000 + x.lo

\* x >= 0 as an integer of the model, or tope + 1 when x > tope
ExpHasta(x, tope) == IF ExpMayorQue(x, tope) THEN tope + 1 ELSE ExpInt(x)

\* the exponent of magnitude alto * 10^9 + bajo
ExpDePartes(neg, alto, bajo) ==
    IF ~ neg THEN Exp(alto, bajo)
    ELSE IF bajo = 0 THEN Exp(0 - alto, 0)
    ELSE Exp((0 - alto) - 1, 1000000000 - bajo)

\* the exponent x, for an integer x of at most nineteen digits
ExpDeEnt(x) ==
    ExpDePartes(x.neg, CifrasAInt(SubSeq(x.d, 1, Len(x.d) - 9)),
                CifrasAInt(IF Len(x.d) > 9 THEN SubSeq(x.d, Len(x.d) - 8, Len(x.d)) ELSE x.d))

\* getcontext().prec.  The arithmetic works in the default context of the
\* decimal module, which the program never changes: 28 digits,
\* ROUND_HALF_EVEN, Emax 999999, Emin -999999 (so Etiny -1000026) and the
\* traps InvalidOperation, DivisionByZero and Overflow.
PRECISION == 28

\* A Decimal is [clase, neg, c, e].  clase "finito" is the number
\* (-1)^neg * c * 10^e for digits c and an exponent e, kept normalised: c
\* ends in no zero, and a zero has e = 0.  "infinito" is Infinity; "nan" and
\* "snan" are the quiet and the signaling NaN, c being the diagnostic digits.  "invalida" and "desbordada"
\* stand for the operation that raised decimal.InvalidOperation or
\* decimal.Overflow and returned nothing.
Dec(clase, neg, c, e) == [clase |-> clase, neg |-> neg, c |-> c, e |-> e]

\* the number (-1)^neg * c * 10^e for digits c
DecDe(neg, c, e) ==
    IF c = <<>> THEN Dec("finito", neg, <<>>, ExpDe(0))
    ELSE Dec("finito", neg, SubSeq(c, 1, Len(c) - CerosDetras(c)), ExpMas(e, CerosDetras(c)))

\* the number n * 10^e for an integer n
DecNorm(n, e) == DecDe(n < 0, CifrasDe(Abs(n)), ExpDe(e))

DecZero == Dec("finito", FALSE, <<>>, ExpDe(0))

\* Decimal("-0"): equal to zero by value, rendered with its sign
DecNegZero == Dec("finito", TRUE, <<>>, ExpDe(0))

\* Decimal("Infinity"), Decimal("-Infinity")
DecInfinito(neg) == Dec("infinito", neg, <<>>, ExpDe(0))

\* Decimal("NaN"), Decimal("sNaN"), with a sign and diagnostic digits
DecNaN(clase, neg, diag) == Dec(clase, neg, diag, ExpDe(0))

DecInvalida == Dec("invalida", FALSE, <<>>, ExpDe(0))

DecDesbordada == Dec("desbordada", FALSE, <<>>, ExpDe(0))

\* decimal.InvalidOperation and decimal.Overflow as the exception that leaves
\* a view
OperacionInvalida == "decimal.InvalidOperation"

Desbordamiento == "decimal.Overflow"

\* a stands for an operation that raised
DecLanzada(a) == a.clase \in {"invalida", "desbordada"}

ExcepcionDe(a) == IF a.clase = "desbordada" THEN Desbordamiento ELSE OperacionInvalida

DecFinito(a) == a.clase = "finito"

\* a.is_signed()
DecSigned(a) == a.neg

DecIsZero(a) == DecFinito(a) /\ a.c = <<>>

\* a == b of two Decimals: exact, by value, whatever the digits of the
\* operands; a quiet NaN equals nothing and a signaling NaN raises
\* InvalidOperation (DecInvalida in place of a truth value)
DecEq(a, b) ==
    IF DecLanzada(a) THEN a
    ELSE IF DecLanzada(b) THEN b
    ELSE IF a.clase = "snan" \/ b.clase = "snan" THEN DecInvalida
    ELSE IF DecFinito(a) /\ DecFinito(b) THEN (a.c = <<>> /\ b.c = <<>>) \/ a = b
    ELSE a.clase = "infinito" /\ a = b

DecInt(n) == DecNorm(n, 0)

DecMin(a, b) == IF a < b THEN a ELSE b

\* c / 10^k for digits c, rounded to an integer with ROUND_HALF_EVEN
MitadAlPar(c, k) ==
    IF k <= 0 THEN c
    ELSE IF k > Len(c) THEN <<>>
    ELSE IF MasDeMitad(c, k) \/ (JustoMitad(c, k) /\ Impar(c, k))
    THEN CifrasSuma(SubSeq(c, 1, Len(c) - k), <<1>>)
    ELSE SubSeq(c, 1, Len(c) - k)

\* the least exponent the context gives to a result of coefficient c and
\* exponent e: PRECISION digits at most, and nothing below Etiny
ExpMin(c, e) ==
    IF ExpMayorQue(ExpMas(e, Len(c) - PRECISION), -1000026)
    THEN ExpMas(e, Len(c) - PRECISION)
    ELSE ExpDe(-1000026)

\* a rounded result of magnitude mag * 10^e: a result that became zero keeps
\* its sign, one beyond Emax raises Overflow
DecRedondeado(neg, mag, e) ==
    IF mag = <<>> THEN (IF neg THEN DecNegZero ELSE DecZero)
    ELSE IF ExpMayorQue(ExpMas(e, Len(mag) - 1), 999999) THEN DecDesbordada
    ELSE DecDe(neg, mag, e)

\* the result of an operation whose exact value is (-1)^neg * c * 10^e,
\* c # 0, as the context returns it: rounded once to PRECISION digits or to
\* Etiny
DecFijar(neg, c, e) ==
    IF ExpMayorQue(ExpMas(e, Len(c) - 1), 999999) THEN DecDesbordada
    ELSE IF ~ ExpMenor(e, ExpMin(c, e)) THEN DecDe(neg, c, e)
    ELSE DecRedondeado(neg, MitadAlPar(c, ExpHasta(ExpResta(ExpMin(c, e), e), Len(c))),
                       ExpMin(c, e))

\* a quiet NaN as an operation returns it: of the diagnostic digits the
\* lowest PRECISION are kept
DecNaNFijado(a) ==
    IF Len(a.c) > PRECISION
    THEN Dec("nan", a.neg, SinCerosDelante(SubSeq(a.c, Len(a.c) - PRECISION + 1, Len(a.c))), a.e)
    ELSE a

\* The operands that are no numbers decide the result of an operation: an
\* operand that was never returned leaves the exception that took its place,
\* a signaling NaN raises InvalidOperation, a quiet NaN is returned, the
\* first one first; r is the result for two numbers or infinities.
DecConNaN(a, b, r) ==
    IF DecLanzada(a) THEN a
    ELSE IF DecLanzada(b) THEN b
    ELSE IF a.clase = "snan" \/ b.clase = "snan" THEN DecInvalida
    ELSE IF a.clase = "nan" THEN DecNaNFijado(a)
    ELSE IF b.clase = "nan" THEN DecNaNFijado(b)
    ELSE r

\* -a for a number or an infinity, the sign changed and nothing rounded
DecNeg(a) ==
    IF DecLanzada(a) THEN a ELSE Dec(a.clase, ~ a.neg, a.c, a.e)

\* The term b of a sum written at the exponent of a digit that the rounding
\* of the sum cannot reach, for a of the higher exponent: a term that lies
\* wholly below that digit counts as one unit of it.
ExpDeResto(a) == ExpMas(a.e, DecMin(-1, Len(a.c) - PRECISION - 2))

Resto(a, b) ==
    IF ExpMenor(ExpMas(b.e, Len(b.c) - 1), ExpDeResto(a))
    THEN Dec("finito", b.neg, <<1>>, ExpDeResto(a))
    ELSE b

\* a + b for a.e >= b.e, the digits of a written at the exponent of b
SumaAlineada(neg_a, ca, neg_b, cb, e) ==
    IF neg_a = neg_b THEN DecFijar(neg_a, CifrasSuma(ca, cb), e)
    ELSE IF ca = cb THEN DecZero
    ELSE IF CifrasMenor(ca, cb) THEN DecFijar(neg_b, CifrasResta(cb, ca), e)
    ELSE DecFijar(neg_a, CifrasResta(ca, cb), e)

SumaOrdenada(a, b) ==
    SumaAlineada(a.neg, CifrasPorPow10(a.c, ExpInt(ExpResta(a.e, Resto(a, b).e))),
                 b.neg, Resto(a, b).c, Resto(a, b).e)

\* a + b of two numbers: the exact sum, rounded by the context; a zero sum
\* is negative only when both terms are negative zeros
DecSumar(a, b) ==
    IF a.c = <<>> /\ b.c = <<>>
    THEN (IF a.neg /\ b.neg THEN DecNegZero ELSE DecZero)
    ELSE IF a.c = <<>> THEN DecFijar(b.neg, b.c, b.e)
    ELSE IF b.c = <<>> THEN DecFijar(a.neg, a.c, a.e)
    ELSE IF ExpMenor(a.e, b.e) THEN SumaOrdenada(b, a)
    ELSE SumaOrdenada(a, b)

\* a + b: Infinity + -Infinity raises InvalidOperation
DecAdd(a, b) ==
    DecConNaN(a, b,
        IF a.clase = "infinito"
        THEN (IF b.clase = "infinito" /\ a # b THEN DecInvalida ELSE a)
        ELSE IF b.clase = "infinito" THEN b
        ELSE DecSumar(a, b))

DecSub(a, b) == DecConNaN(a, b, DecAdd(a, DecNeg(b)))

\* a * b: the sign of a zero or infinite product is the product of the signs;
\* Infinity * 0 raises InvalidOperation; the exact product of two numbers is
\* rounded by the context
DecMul(a, b) ==
    DecConNaN(a, b,
        IF a.clase = "infinito" \/ b.clase = "infinito"
        THEN (IF DecIsZero(a) \/ DecIsZero(b) THEN DecInvalida
              ELSE DecInfinito(a.neg # b.neg))
        ELSE IF a.c = <<>> \/ b.c = <<>>
        THEN (IF a.neg # b.neg THEN DecNegZero ELSE DecZero)
        ELSE DecFijar(a.neg # b.neg, CifrasProducto(a.c, b.c), ExpSuma(a.e, b.e)))

\* a / Decimal("1" followed by k zeros): the exact quotient, rounded by the
\* context
DecDivPow10(a, k) ==
    DecConNaN(a, DecZero,
        IF DecFinito(a) /\ a.c # <<>> THEN DecFijar(a.neg, a.c, ExpMas(a.e, 0 - k)) ELSE a)

(***************************************************************************)
(* JSON values of a request: null, an integer or a string                  *)
(***************************************************************************)
JNull == [t |-> "null", n |-> 0, s |-> <<>>]

JInt(n) == [t |-> "int", n |-> n, s |-> <<>>]

JStr(s) == [t |-> "str", n |-> 0, s |-> s]

\* python: value in (None, "")
EsVacio(v) == v.t = "null" \/ (v.t = "str" /\ v.s = <<>>)

\* A string is the sequence of its characters.  A character up to U+00FF is
\* written as itself; a character above U+00FF is written as the name of its
\* code point: "U+0663" is ARABIC-INDIC DIGIT THREE, one character.
Digitos == <<"0", "1", "2", "3", "4", "5", "6", "7", "8", "9">>

DigitSet == {"0", "1", "2", "3", "4", "5", "6", "7", "8", "9"}

\* The decimal digits of Unicode (category Nd), which int(text) and
\* Decimal(text) read as the digits 0..9: one row for each script, in the
\* order of the values.
DigitosUnicode ==
    << <<"0", "1", "2", "3", "4", "5", "6", "7", "8", "9">>,
       <<"U+0660", "U+0661", "U+0662", "U+0663", "U+0664", "U+0665", "U+0666", "U+0667", "U+0668", "U+0669">>,
       <<"U+06F0", "U+06F1", "U+06F2", "U+06F3", "U+06F4", "U+06F5", "U+06F6", "U+06F7", "U+06F8", "U+06F9">>,
       <<"U+07C0", "U+07C1", "U+07C2", "U+07C3", "U+07C4", "U+07C5", "U+07C6", "U+07C7", "U+07C8", "U+07C9">>,
       <<"U+0966", "U+0967", "U+0968", "U+0969", "U+096A", "U+096B", "U+096C", "U+096D", "U+096E", "U+096F">>,
       <<"U+09E6", "U+09E7", "U+09E8", "U+09E9", "U+09EA", "U+09EB", "U+09EC", "U+09ED", "U+09EE", "U+09EF">>,
       <<"U+0A66", "U+0A67", "U+0A68", "U+0A69", "U+0A6A", "U+0A6B", "U+0A6C", "U+0A6D", "U+0A6E", "U+0A6F">>,
       <<"U+0AE6", "U+0AE7", "U+0AE8", "U+0AE9", "U+0AEA", "U+0AEB", "U+0AEC", "U+0AED", "U+0AEE", "U+0AEF">>,
       <<"U+0B66", "U+0B67", "U+0B68", "U+0B69", "U+0B6A", "U+0B6B", "U+0B6C", "U+0B6D", "U+0B6E", "U+0B6F">>,
       <<"U+0BE6", "U+0BE7", "U+0BE8", "U+0BE9", "U+0BEA", "U+0BEB", "U+0BEC", "U+0BED", "U+0BEE", "U+0BEF">>,
       <<"U+0C66", "U+0C67", "U+0C68", "U+0C69", "U+0C6A", "U+0C6B", "U+0C6C", "U+0C6D", "U+0C6E", "U+0C6F">>,
       <<"U+0CE6", "U+0CE7", "U+0CE8", "U+0CE9", "U+0CEA", "U+0CEB", "U+0CEC", "U+0CED", "U+0CEE", "U+0CEF">>,
       <<"U+0D66", "U+0D67", "U+0D68", "U+0D69", "U+0D6A", "U+0D6B", "U+0D6C", "U+0D6D", "U+0D6E", "U+0D6F">>,
       <<"U+0DE6", "U+0DE7", "U+0DE8", "U+0DE9", "U+0DEA", "U+0DEB", "U+0DEC", "U+0DED", "U+0DEE", "U+0DEF">>,
       <<"U+0E50", "U+0E51", "U+0E52", "U+0E53", "U+0E54", "U+0E55", "U+0E56", "U+0E57", "U+0E58", "U+0E59">>,
       <<"U+0ED0", "U+0ED1", "U+0ED2", "U+0ED3", "U+0ED4", "U+0ED5", "U+0ED6", "U+0ED7", "U+0ED8", "U+0ED9">>,
       <<"U+0F20", "U+0F21", "U+0F22", "U+0F23", "U+0F24", "U+0F25", "U+0F26", "U+0F27", "U+0F28", "U+0F29">>,
       <<"U+1040", "U+1041", "U+1042", "U+1043", "U+1044", "U+1045", "U+1046", "U+1047", "U+1048", "U+1049">>,
       <<"U+1090", "U+1091", "U+1092", "U+1093", "U+1094", "U+1095", "U+1096", "U+1097", "U+1098", "U+1099">>,
       <<"U+17E0", "U+17E1", "U+17E2", "U+17E3", "U+17E4", "U+17E5", "U+17E6", "U+17E7", "U+17E8", "U+17E9">>,
       <<"U+1810", "U+1811", "U+1812", "U+1813", "U+1814", "U+1815", "U+1816", "U+1817", "U+1818", "U+1819">>,
       <<"U+1946", "U+1947", "U+1948", "U+1949", "U+194A", "U+194B", "U+194C", "U+194D", "U+194E", "U+194F">>,
       <<"U+19D0", "U+19D1", "U+19D2", "U+19D3", "U+19D4", "U+19D5", "U+19D6", "U+19D7", "U+19D8", "U+19D9">>,
       <<"U+1A80", "U+1A81", "U+1A82", "U+1A83", "U+1A84", "U+1A85", "U+1A86", "U+1A87", "U+1A88", "U+1A89">>,
       <<"U+1A90", "U+1A91", "U+1A92", "U+1A93", "U+1A94", "U+1A95", "U+1A96", "U+1A97", "U+1A98", "U+1A99">>,
       <<"U+1B50", "U+1B51", "U+1B52", "U+1B53", "U+1B54", "U+1B55", "U+1B56", "U+1B57", "U+1B58", "U+1B59">>,
       <<"U+1BB0", "U+1BB1", "U+1BB2", "U+1BB3", "U+1BB4", "U+1BB5", "U+1BB6", "U+1BB7", "U+1BB8", "U+1BB9">>,
       <<"U+1C40", "U+1C41", "U+1C42", "U+1C43", "U+1C44", "U+1C45", "U+1C46", "U+1C47", "U+1C48", "U+1C49">>,
       <<"U+1C50", "U+1C51", "U+1C52", "U+1C53", "U+1C54", "U+1C55", "U+1C56", "U+1C57", "U+1C58", "U+1C59">>,
       <<"U+A620", "U+A621", "U+A622", "U+A623", "U+A624", "U+A625", "U+A626", "U+A627", "U+A628", "U+A629">>,
       <<"U+A8D0", "U+A8D1", "U+A8D2", "U+A8D3", "U+A8D4", "U+A8D5", "U+A8D6", "U+A8D7", "U+A8D8", "U+A8D9">>,
       <<"U+A900", "U+A901", "U+A902", "U+A903", "U+A904", "U+A905", "U+A906", "U+A907", "U+A908", "U+A909">>,
       <<"U+A9D0", "U+A9D1", "U+A9D2", "U+A9D3", "U+A9D4", "U+A9D5", "U+A9D6", "U+A9D7", "U+A9D8", "U+A9D9">>,
       <<"U+A9F0", "U+A9F1", "U+A9F2", "U+A9F3", "U+A9F4", "U+A9F5", "U+A9F6", "U+A9F7", "U+A9F8", "U+A9F9">>,
       <<"U+AA50", "U+AA51", "U+AA52", "U+AA53", "U+AA54", "U+AA55", "U+AA56", "U+AA57", "U+AA58", "U+AA59">>,
       <<"U+ABF0", "U+ABF1", "U+ABF2", "U+ABF3", "U+ABF4", "U+ABF5", "U+ABF6", "U+ABF7", "U+ABF8", "U+ABF9">>,
       <<"U+FF10", "U+FF11", "U+FF12", "U+FF13", "U+FF14", "U+FF15", "U+FF16", "U+FF17", "U+FF18", "U+FF19">>,
       <<"U+104A0", "U+104A1", "U+104A2", "U+104A3", "U+104A4", "U+104A5", "U+104A6", "U+104A7", "U+104A8", "U+104A9">>,
       <<"U+10D30", "U+10D31", "U+10D32", "U+10D33", "U+10D34", "U+10D35", "U+10D36", "U+10D37", "U+10D38", "U+10D39">>,
       <<"U+11066", "U+11067", "U+11068", "U+11069", "U+1106A", "U+1106B", "U+1106C", "U+1106D", "U+1106E", "U+1106F">>,
       <<"U+110F0", "U+110F1", "U+110F2", "U+110F3", "U+110F4", "U+110F5", "U+110F6", "U+110F7", "U+110F8", "U+110F9">>,
       <<"U+11136", "U+11137", "U+11138", "U+11139", "U+1113A", "U+1113B", "U+1113C", "U+1113D", "U+1113E", "U+1113F">>,
       <<"U+111D0", "U+111D1", "U+111D2", "U+111D3", "U+111D4", "U+111D5", "U+111D6", "U+111D7", "U+111D8", "U+111D9">>,
       <<"U+112F0", "U+112F1", "U+112F2", "U+112F3", "U+112F4", "U+112F5", "U+112F6", "U+112F7", "U+112F8", "U+112F9">>,
       <<"U+11450", "U+11451", "U+11452", "U+11453", "U+11454", "U+11455", "U+11456", "U+11457", "U+11458", "U+11459">>,
       <<"U+114D0", "U+114D1", "U+114D2", "U+114D3", "U+114D4", "U+114D5", "U+114D6", "U+114D7", "U+114D8", "U+114D9">>,
       <<"U+11650", "U+11651", "U+11652", "U+11653", "U+11654", "U+11655", "U+11656", "U+11657", "U+11658", "U+11659">>,
       <<"U+116C0", "U+116C1", "U+116C2", "U+116C3", "U+116C4", "U+116C5", "U+116C6", "U+116C7", "U+116C8", "U+116C9">>,
       <<"U+11730", "U+11731", "U+11732", "U+11733", "U+11734", "U+11735", "U+11736", "U+11737", "U+11738", "U+11739">>,
       <<"U+118E0", "U+118E1", "U+118E2", "U+118E3", "U+118E4", "U+118E5", "U+118E6", "U+118E7", "U+118E8", "U+118E9">>,
       <<"U+11950", "U+11951", "U+11952", "U+11953", "U+11954", "U+11955", "U+11956", "U+11957", "U+11958", "U+11959">>,
       <<"U+11C50", "U+11C51", "U+11C52", "U+11C53", "U+11C54", "U+11C55", "U+11C56", "U+11C57", "U+11C58", "U+11C59">>,
       <<"U+11D50", "U+11D51", "U+11D52", "U+11D53", "U+11D54", "U+11D55", "U+11D56", "U+11D57", "U+11D58", "U+11D59">>,
       <<"U+11DA0", "U+11DA1", "U+11DA2", "U+11DA3", "U+11DA4", "U+11DA5", "U+11DA6", "U+11DA7", "U+11DA8", "U+11DA9">>,
       <<"U+16A60", "U+16A61", "U+16A62", "U+16A63", "U+16A64", "U+16A65", "U+16A66", "U+16A67", "U+16A68", "U+16A69">>,
       <<"U+16AC0", "U+16AC1", "U+16AC2", "U+16AC3", "U+16AC4", "U+16AC5", "U+16AC6", "U+16AC7", "U+16AC8", "U+16AC9">>,
       <<"U+16B50", "U+16B51", "U+16B52", "U+16B53", "U+16B54", "U+16B55", "U+16B56", "U+16B57", "U+16B58", "U+16B59">>,
       <<"U+1D7CE", "U+1D7CF", "U+1D7D0", "U+1D7D1", "U+1D7D2", "U+1D7D3", "U+1D7D4", "U+1D7D5", "U+1D7D6", "U+1D7D7">>,
       <<"U+1D7D8", "U+1D7D9", "U+1D7DA", "U+1D7DB", "U+1D7DC", "U+1D7DD", "U+1D7DE", "U+1D7DF", "U+1D7E0", "U+1D7E1">>,
       <<"U+1D7E2", "U+1D7E3", "U+1D7E4", "U+1D7E5", "U+1D7E6", "U+1D7E7", "U+1D7E8", "U+1D7E9", "U+1D7EA", "U+1D7EB">>,
       <<"U+1D7EC", "U+1D7ED", "U+1D7EE", "U+1D7EF", "U+1D7F0", "U+1D7F1", "U+1D7F2", "U+1D7F3", "U+1D7F4", "U+1D7F5">>,
       <<"U+1D7F6", "U+1D7F7", "U+1D7F8", "U+1D7F9", "U+1D7FA", "U+1D7FB", "U+1D7FC", "U+1D7FD", "U+1D7FE", "U+1D7FF">>,
       <<"U+1E140", "U+1E141", "U+1E142", "U+1E143", "U+1E144", "U+1E145", "U+1E146", "U+1E147", "U+1E148", "U+1E149">>,
       <<"U+1E2F0", "U+1E2F1", "U+1E2F2", "U+1E2F3", "U+1E2F4", "U+1E2F5", "U+1E2F6", "U+1E2F7", "U+1E2F8", "U+1E2F9">>,
       <<"U+1E950", "U+1E951", "U+1E952", "U+1E953", "U+1E954", "U+1E955", "U+1E956", "U+1E957", "U+1E958", "U+1E959">>,
       <<"U+1FBF0", "U+1FBF1", "U+1FBF2", "U+1FBF3", "U+1FBF4", "U+1FBF5", "U+1FBF6", "U+1FBF7", "U+1FBF8", "U+1FBF9">> >>

DigitSetUnicode ==
    UNION { { DigitosUnicode[i][j] : j \in 1..10 } : i \in DOMAIN DigitosUnicode }

EsDigito(ch) == ch \in DigitSetUnicode

DigitVal(ch) ==
    CASE ch = "0" -> 0 [] ch = "1" -> 1 [] ch = "2" -> 2 [] ch = "3" -> 3
      [] ch = "4" -> 4 [] ch = "5" -> 5 [] ch = "6" -> 6 [] ch = "7" -> 7
      [] ch = "8" -> 8 [] ch = "9" -> 9
      [] OTHER -> (CHOOSE j \in 1..10 :
                      \E i \in DOMAIN DigitosUnicode : DigitosUnicode[i][j] = ch) - 1

\* str(n) for an integer n
RECURSIVE NatToStr(_)
NatToStr(n) ==
    IF n < 10 THEN <<Digitos[n + 1]>>
    ELSE Append(NatToStr(n \div 10), Digitos[(n % 10) + 1])

IntToStr(n) == IF n < 0 THEN <<"-">> \o NatToStr(0 - n) ELSE NatToStr(n)

Minusculas ==
    <<"a", "b", "c", "d", "e", "f", "g", "h", "i", "j", "k", "l", "m",
      "n", "o", "p", "q", "r", "s", "t", "u", "v", "w", "x", "y", "z">>

Mayusculas ==
    <<"A", "B", "C", "D", "E", "F", "G", "H", "I", "J", "K", "L", "M",
      "N", "O", "P", "Q", "R", "S", "T", "U", "V", "W", "X", "Y", "Z">>

\* The characters str.upper() changes, in the order of the code points, and
\* what it makes of each: one character or more.
MinusculasUnicode ==
    <<"a", "b", "c", "d", "e", "f", "g", "h", "i", "j", "k", "l", "m", "n",
      "o", "p", "q", "r", "s", "t", "u", "v", "w", "x", "y", "z", "µ", "ß",
      "à", "á", "â", "ã", "ä", "å", "æ", "ç", "è", "é", "ê", "ë", "ì", "í",
      "î", "ï", "ð", "ñ", "ò", "ó", "ô", "õ", "ö", "ø", "ù", "ú", "û", "ü",
      "ý", "þ", "ÿ", "U+0101", "U+0103", "U+0105", "U+0107", "U+0109",
      "U+010B", "U+010D", "U+010F", "U+0111", "U+0113", "U+0115", "U+0117",
      "U+0119", "U+011B", "U+011D", "U+011F", "U+0121", "U+0123", "U+0125",
      "U+0127", "U+0129", "U+012B", "U+012D", "U+012F", "U+0131", "U+0133",
      "U+0135", "U+0137", "U+013A", "U+013C", "U+013E", "U+0140", "U+0142",
      "U+0144", "U+0146", "U+0148", "U+0149", "U+014B", "U+014D", "U+014F",
      "U+0151", "U+0153", "U+0155", "U+0157", "U+0159", "U+015B", "U+015D",
      "U+015F", "U+0161", "U+0163", "U+0165", "U+0167", "U+0169", "U+016B",
      "U+016D", "U+016F", "U+0171", "U+0173", "U+0175", "U+0177", "U+017A",
      "U+017C", "U+017E", "U+017F", "U+0180", "U+0183", "U+0185", "U+0188",
      "U+018C", "U+0192", "U+0195", "U+0199", "U+019A", "U+019E", "U+01A1",
      "U+01A3", "U+01A5", "U+01A8", "U+01AD", "U+01B0", "U+01B4", "U+01B6",
      "U+01B9", "U+01BD", "U+01BF", "U+01C5", "U+01C6", "U+01C8", "U+01C9",
      "U+01CB", "U+01CC", "U+01CE", "U+01D0", "U+01D2", "U+01D4", "U+01D6",
      "U+01D8", "U+01DA", "U+01DC", "U+01DD", "U+01DF", "U+01E1", "U+01E3",
      "U+01E5", "U+01E7", "U+01E9", "U+01EB", "U+01ED", "U+01EF", "U+01F0",
      "U+01F2", "U+01F3", "U+01F5", "U+01F9", "U+01FB", "U+01FD", "U+01FF",
      "U+0201", "U+0203", "U+0205", "U+0207", "U+0209", "U+020B", "U+020D",
      "U+020F", "U+0211", "U+0213", "U+0215", "U+0217", "U+0219", "U+021B",
      "U+021D", "U+021F", "U+0223", "U+0225", "U+0227", "U+0229", "U+022B",
      "U+022D", "U+022F", "U+0231", "U+0233", "U+023C", "U+023F", "U+0240",
      "U+0242", "U+0247", "U+0249", "U+024B", "U+024D", "U+024F", "U+0250",
      "U+0251", "U+0252", "U+0253", "U+0254", "U+0256", "U+0257", "U+0259",
      "U+025B", "U+025C", "U+0260", "U+0261", "U+0263", "U+0265", "U+0266",
      "U+0268", "U+0269", "U+026A", "U+026B", "U+026C", "U+026F", "U+0271",
      "U+0272", "U+0275", "U+027D", "U+0280", "U+0282", "U+0283", "U+0287",
      "U+0288", "U+0289", "U+028A", "U+028B", "U+028C", "U+0292", "U+029D",
      "U+029E", "U+0345", "U+0371", "U+0373", "U+0377", "U+037B", "U+037C",
      "U+037D", "U+0390", "U+03AC", "U+03AD", "U+03AE", "U+03AF", "U+03B0",
      "U+03B1", "U+03B2", "U+03B3", "U+03B4", "U+03B5", "U+03B6", "U+03B7",
      "U+03B8", "U+03B9", "U+03BA", "U+03BB", "U+03BC", "U+03BD", "U+03BE",
      "U+03BF", "U+03C0", "U+03C1", "U+03C2", "U+03C3", "U+03C4", "U+03C5",
      "U+03C6", "U+03C7", "U+03C8", "U+03C9", "U+03CA", "U+03CB", "U+03CC",
      "U+03CD", "U+03CE", "U+03D0", "U+03D1", "U+03D5", "U+03D6", "U+03D7",
      "U+03D9", "U+03DB", "U+03DD", "U+03DF", "U+03E1", "U+03E3", "U+03E5",
      "U+03E7", "U+03E9", "U+03EB", "U+03ED", "U+03EF", "U+03F0", "U+03F1",
      "U+03F2", "U+03F3", "U+03F5", "U+03F8", "U+03FB", "U+0430", "U+0431",
      "U+0432", "U+0433", "U+0434", "U+0435", "U+0436", "U+0437", "U+0438",
      "U+0439", "U+043A", "U+043B", "U+043C", "U+043D", "U+043E", "U+043F",
      "U+0440", "U+0441", "U+0442", "U+0443", "U+0444", "U+0445", "U+0446",
      "U+0447", "U+0448", "U+0449", "U+044A", "U+044B", "U+044C", "U+044D",
      "U+044E", "U+044F", "U+0450", "U+0451", "U+0452", "U+0453", "U+0454",
      "U+0455", "U+0456", "U+0457", "U+0458", "U+0459", "U+045A", "U+045B",
      "U+045C", "U+045D", "U+045E", "U+045F", "U+0461", "U+0463", "U+0465",
      "U+0467", "U+0469", "U+046B", "U+046D", "U+046F", "U+0471", "U+0473",
      "U+0475", "U+0477", "U+0479", "U+047B", "U+047D", "U+047F", "U+0481",
      "U+048B", "U+048D", "U+048F", "U+0491", "U+0493", "U+0495", "U+0497",
      "U+0499", "U+049B", "U+049D", "U+049F", "U+04A1", "U+04A3", "U+04A5",
      "U+04A7", "U+04A9", "U+04AB", "U+04AD", "U+04AF", "U+04B1", "U+04B3",
      "U+04B5", "U+04B7", "U+04B9", "U+04BB", "U+04BD", "U+04BF", "U+04C2",
      "U+04C4", "U+04C6", "U+04C8", "U+04CA", "U+04CC", "U+04CE", "U+04CF",
      "U+04D1", "U+04D3", "U+04D5", "U+04D7", "U+04D9", "U+04DB", "U+04DD",
      "U+04DF", "U+04E1", "U+04E3", "U+04E5", "U+04E7", "U+04E9", "U+04EB",
      "U+04ED", "U+04EF", "U+04F1", "U+04F3", "U+04F5", "U+04F7", "U+04F9",
      "U+04FB", "U+04FD", "U+04FF", "U+0501", "U+0503", "U+0505", "U+0507",
      "U+0509", "U+050B", "U+050D", "U+050F", "U+0511", "U+0513", "U+0515",
      "U+0517", "U+0519", "U+051B", "U+051D", "U+051F", "U+0521", "U+0523",
      "U+0525", "U+0527", "U+0529", "U+052B", "U+052D", "U+052F", "U+0561",
      "U+0562", "U+0563", "U+0564", "U+0565", "U+0566", "U+0567", "U+0568",
      "U+0569", "U+056A", "U+056B", "U+056C", "U+056D", "U+056E", "U+056F",
      "U+0570", "U+0571", "U+0572", "U+0573", "U+0574", "U+0575", "U+0576",
      "U+0577", "U+0578", "U+0579", "U+057A", "U+057B", "U+057C", "U+057D",
      "U+057E", "U+057F", "U+0580", "U+0581", "U+0582", "U+0583", "U+0584",
      "U+0585", "U+0586", "U+0587", "U+10D0", "U+10D1", "U+10D2", "U+10D3",
      "U+10D4", "U+10D5", "U+10D6", "U+10D7", "U+10D8", "U+10D9", "U+10DA",
      "U+10DB", "U+10DC", "U+10DD", "U+10DE", "U+10DF", "U+10E0", "U+10E1",
      "U+10E2", "U+10E3", "U+10E4", "U+10E5", "U+10E6", "U+10E7", "U+10E8",
      "U+10E9", "U+10EA", "U+10EB", "U+10EC", "U+10ED", "U+10EE", "U+10EF",
      "U+10F0", "U+10F1", "U+10F2", "U+10F3", "U+10F4", "U+10F5", "U+10F6",
      "U+10F7", "U+10F8", "U+10F9", "U+10FA", "U+10FD", "U+10FE", "U+10FF",
      "U+13F8", "U+13F9", "U+13FA", "U+13FB", "U+13FC", "U+13FD", "U+1C80",
      "U+1C81", "U+1C82", "U+1C83", "U+1C84", "U+1C85", "U+1C86", "U+1C87",
      "U+1C88", "U+1D79", "U+1D7D", "U+1D8E", "U+1E01", "U+1E03", "U+1E05",
      "U+1E07", "U+1E09", "U+1E0B", "U+1E0D", "U+1E0F", "U+1E11", "U+1E13",
      "U+1E15", "U+1E17", "U+1E19", "U+1E1B", "U+1E1D", "U+1E1F", "U+1E21",
      "U+1E23", "U+1E25", "U+1E27", "U+1E29", "U+1E2B", "U+1E2D", "U+1E2F",
      "U+1E31", "U+1E33", "U+1E35", "U+1E37", "U+1E39", "U+1E3B", "U+1E3D",
      "U+1E3F", "U+1E41", "U+1E43", "U+1E45", "U+1E47", "U+1E49", "U+1E4B",
      "U+1E4D", "U+1E4F", "U+1E51", "U+1E53", "U+1E55", "U+1E57", "U+1E59",
      "U+1E5B", "U+1E5D", "U+1E5F", "U+1E61", "U+1E63", "U+1E65", "U+1E67",
      "U+1E69", "U+1E6B", "U+1E6D", "U+1E6F", "U+1E71", "U+1E73", "U+1E75",
      "U+1E77", "U+1E79", "U+1E7B", "U+1E7D", "U+1E7F", "U+1E81", "U+1E83",
      "U+1E85", "U+1E87", "U+1E89", "U+1E8B", "U+1E8D", "U+1E8F", "U+1E91",
      "U+1E93", "U+1E95", "U+1E96", "U+1E97", "U+1E98", "U+1E99", "U+1E9A",
      "U+1E9B", "U+1EA1", "U+1EA3", "U+1EA5", "U+1EA7", "U+1EA9", "U+1EAB",
      "U+1EAD", "U+1EAF", "U+1EB1", "U+1EB3", "U+1EB5", "U+1EB7", "U+1EB9",
      "U+1EBB", "U+1EBD", "U+1EBF", "U+1EC1", "U+1EC3", "U+1EC5", "U+1EC7",
      "U+1EC9", "U+1ECB", "U+1ECD", "U+1ECF", "U+1ED1", "U+1ED3", "U+1ED5",
      "U+1ED7", "U+1ED9", "U+1EDB", "U+1EDD", "U+1EDF", "U+1EE1", "U+1EE3",
      "U+1EE5", "U+1EE7", "U+1EE9", "U+1EEB", "U+1EED", "U+1EEF", "U+1EF1",
      "U+1EF3", "U+1EF5", "U+1EF7", "U+1EF9", "U+1EFB", "U+1EFD", "U+1EFF",
      "U+1F00", "U+1F01", "U+1F02", "U+1F03", "U+1F04", "U+1F05", "U+1F06",
      "U+1F07", "U+1F10", "U+1F11", "U+1F12", "U+1F13", "U+1F14", "U+1F15",
      "U+1F20", "U+1F21", "U+1F22", "U+1F23", "U+1F24", "U+1F25", "U+1F26",
      "U+1F27", "U+1F30", "U+1F31", "U+1F32", "U+1F33", "U+1F34", "U+1F35",
      "U+1F36", "U+1F37", "U+1F40", "U+1F41", "U+1F42", "U+1F43", "U+1F44",
      "U+1F45", "U+1F50", "U+1F51", "U+1F52", "U+1F53", "U+1F54", "U+1F55",
      "U+1F56", "U+1F57", "U+1F60", "U+1F61", "U+1F62", "U+1F63", "U+1F64",
      "U+1F65", "U+1F66", "U+1F67", "U+1F70", "U+1F71", "U+1F72", "U+1F73",
      "U+1F74", "U+1F75", "U+1F76", "U+1F77", "U+1F78", "U+1F79", "U+1F7A",
      "U+1F7B", "U+1F7C", "U+1F7D", "U+1F80", "U+1F81", "U+1F82", "U+1F83",
      "U+1F84", "U+1F85", "U+1F86", "U+1F87", "U+1F88", "U+1F89", "U+1F8A",
      "U+1F8B", "U+1F8C", "U+1F8D", "U+1F8E", "U+1F8F", "U+1F90", "U+1F91",
      "U+1F92", "U+1F93", "U+1F94", "U+1F95", "U+1F96", "U+1F97", "U+1F98",
      "U+1F99", "U+1F9A", "U+1F9B", "U+1F9C", "U+1F9D", "U+1F9E", "U+1F9F",
      "U+1FA0", "U+1FA1", "U+1FA2", "U+1FA3", "U+1FA4", "U+1FA5", "U+1FA6",
      "U+1FA7", "U+1FA8", "U+1FA9", "U+1FAA", "U+1FAB", "U+1FAC", "U+1FAD",
      "U+1FAE", "U+1FAF", "U+1FB0", "U+1FB1", "U+1FB2", "U+1FB3", "U+1FB4",
      "U+1FB6", "U+1FB7", "U+1FBC", "U+1FBE", "U+1FC2", "U+1FC3", "U+1FC4",
      "U+1FC6", "U+1FC7", "U+1FCC", "U+1FD0", "U+1FD1", "U+1FD2", "U+1FD3",
      "U+1FD6", "U+1FD7", "U+1FE0", "U+1FE1", "U+1FE2", "U+1FE3", "U+1FE4",
      "U+1FE5", "U+1FE6", "U+1FE7", "U+1FF2", "U+1FF3", "U+1FF4", "U+1FF6",
      "U+1FF7", "U+1FFC", "U+214E", "U+2170", "U+2171", "U+2172", "U+2173",
      "U+2174", "U+2175", "U+2176", "U+2177", "U+2178", "U+2179", "U+217A",
      "U+217B", "U+217C", "U+217D", "U+217E", "U+217F", "U+2184", "U+24D0",
      "U+24D1", "U+24D2", "U+24D3", "U+24D4", "U+24D5", "U+24D6", "U+24D7",
      "U+24D8", "U+24D9", "U+24DA", "U+24DB", "U+24DC", "U+24DD", "U+24DE",
      "U+24DF", "U+24E0", "U+24E1", "U+24E2", "U+24E3", "U+24E4", "U+24E5",
      "U+24E6", "U+24E7", "U+24E8", "U+24E9", "U+2C30", "U+2C31", "U+2C32",
      "U+2C33", "U+2C34", "U+2C35", "U+2C36", "U+2C37", "U+2C38", "U+2C39",
      "U+2C3A", "U+2C3B", "U+2C3C", "U+2C3D", "U+2C3E", "U+2C3F", "U+2C40",
      "U+2C41", "U+2C42", "U+2C43", "U+2C44", "U+2C45", "U+2C46", "U+2C47",
      "U+2C48", "U+2C49", "U+2C4A", "U+2C4B", "U+2C4C", "U+2C4D", "U+2C4E",
      "U+2C4F", "U+2C50", "U+2C51", "U+2C52", "U+2C53", "U+2C54", "U+2C55",
      "U+2C56", "U+2C57", "U+2C58", "U+2C59", "U+2C5A", "U+2C5B", "U+2C5C",
      "U+2C5D", "U+2C5E", "U+2C5F", "U+2C61", "U+2C65", "U+2C66", "U+2C68",
      "U+2C6A", "U+2C6C", "U+2C73", "U+2C76", "U+2C81", "U+2C83", "U+2C85",
      "U+2C87", "U+2C89", "U+2C8B", "U+2C8D", "U+2C8F", "U+2C91", "U+2C93",
      "U+2C95", "U+2C97", "U+2C99", "U+2C9B", "U+2C9D", "U+2C9F", "U+2CA1",
      "U+2CA3", "U+2CA5", "U+2CA7", "U+2CA9", "U+2CAB", "U+2CAD", "U+2CAF",
      "U+2CB1", "U+2CB3", "U+2CB5", "U+2CB7", "U+2CB9", "U+2CBB", "U+2CBD",
      "U+2CBF", "U+2CC1", "U+2CC3", "U+2CC5", "U+2CC7", "U+2CC9", "U+2CCB",
      "U+2CCD", "U+2CCF", "U+2CD1", "U+2CD3", "U+2CD5", "U+2CD7", "U+2CD9",
      "U+2CDB", "U+2CDD", "U+2CDF", "U+2CE1", "U+2CE3", "U+2CEC", "U+2CEE",
      "U+2CF3", "U+2D00", "U+2D01", "U+2D02", "U+2D03", "U+2D04", "U+2D05",
      "U+2D06", "U+2D07", "U+2D08", "U+2D09", "U+2D0A", "U+2D0B", "U+2D0C",
      "U+2D0D", "U+2D0E", "U+2D0F", "U+2D10", "U+2D11", "U+2D12", "U+2D13",
      "U+2D14", "U+2D15", "U+2D16", "U+2D17", "U+2D18", "U+2D19", "U+2D1A",
      "U+2D1B", "U+2D1C", "U+2D1D", "U+2D1E", "U+2D1F", "U+2D20", "U+2D21",
      "U+2D22", "U+2D23", "U+2D24", "U+2D25", "U+2D27", "U+2D2D", "U+A641",
      "U+A643", "U+A645", "U+A647", "U+A649", "U+A64B", "U+A64D", "U+A64F",
      "U+A651", "U+A653", "U+A655", "U+A657", "U+A659", "U+A65B", "U+A65D",
      "U+A65F", "U+A661", "U+A663", "U+A665", "U+A667", "U+A669", "U+A66B",
      "U+A66D", "U+A681", "U+A683", "U+A685", "U+A687", "U+A689", "U+A68B",
      "U+A68D", "U+A68F", "U+A691", "U+A693", "U+A695", "U+A697", "U+A699",
      "U+A69B", "U+A723", "U+A725", "U+A727", "U+A729", "U+A72B", "U+A72D",
      "U+A72F", "U+A733", "U+A735", "U+A737", "U+A739", "U+A73B", "U+A73D",
      "U+A73F", "U+A741", "U+A743", "U+A745", "U+A747", "U+A749", "U+A74B",
      "U+A74D", "U+A74F", "U+A751", "U+A753", "U+A755", "U+A757", "U+A759",
      "U+A75B", "U+A75D", "U+A75F", "U+A761", "U+A763", "U+A765", "U+A767",
      "U+A769", "U+A76B", "U+A76D", "U+A76F", "U+A77A", "U+A77C", "U+A77F",
      "U+A781", "U+A783", "U+A785", "U+A787", "U+A78C", "U+A791", "U+A793",
      "U+A794", "U+A797", "U+A799", "U+A79B", "U+A79D", "U+A79F", "U+A7A1",
      "U+A7A3", "U+A7A5", "U+A7A7", "U+A7A9", "U+A7B5", "U+A7B7", "U+A7B9",
      "U+A7BB", "U+A7BD", "U+A7BF", "U+A7C1", "U+A7C3", "U+A7C8", "U+A7CA",
      "U+A7D1", "U+A7D7", "U+A7D9", "U+A7F6", "U+AB53", "U+AB70", "U+AB71",
      "U+AB72", "U+AB73", "U+AB74", "U+AB75", "U+AB76", "U+AB77", "U+AB78",
      "U+AB79", "U+AB7A", "U+AB7B", "U+AB7C", "U+AB7D", "U+AB7E", "U+AB7F",
      "U+AB80", "U+AB81", "U+AB82", "U+AB83", "U+AB84", "U+AB85", "U+AB86",
      "U+AB87", "U+AB88", "U+AB89", "U+AB8A", "U+AB8B", "U+AB8C", "U+AB8D",
      "U+AB8E", "U+AB8F", "U+AB90", "U+AB91", "U+AB92", "U+AB93", "U+AB94",
      "U+AB95", "U+AB96", "U+AB97", "U+AB98", "U+AB99", "U+AB9A", "U+AB9B",
      "U+AB9C", "U+AB9D", "U+AB9E", "U+AB9F", "U+ABA0", "U+ABA1", "U+ABA2",
      "U+ABA3", "U+ABA4", "U+ABA5", "U+ABA6", "U+ABA7", "U+ABA8", "U+ABA9",
      "U+ABAA", "U+ABAB", "U+ABAC", "U+ABAD", "U+ABAE", "U+ABAF", "U+ABB0",
      "U+ABB1", "U+ABB2", "U+ABB3", "U+ABB4", "U+ABB5", "U+ABB6", "U+ABB7",
      "U+ABB8", "U+ABB9", "U+ABBA", "U+ABBB", "U+ABBC", "U+ABBD", "U+ABBE",
      "U+ABBF", "U+FB00", "U+FB01", "U+FB02", "U+FB03", "U+FB04", "U+FB05",
      "U+FB06", "U+FB13", "U+FB14", "U+FB15", "U+FB16", "U+FB17", "U+FF41",
      "U+FF42", "U+FF43", "U+FF44", "U+FF45", "U+FF46", "U+FF47", "U+FF48",
      "U+FF49", "U+FF4A", "U+FF4B", "U+FF4C", "U+FF4D", "U+FF4E", "U+FF4F",
      "U+FF50", "U+FF51", "U+FF52", "U+FF53", "U+FF54", "U+FF55", "U+FF56",
      "U+FF57", "U+FF58", "U+FF59", "U+FF5A", "U+10428", "U+10429",
      "U+1042A", "U+1042B", "U+1042C", "U+1042D", "U+1042E", "U+1042F",
      "U+10430", "U+10431", "U+10432", "U+10433", "U+10434", "U+10435",
      "U+10436", "U+10437", "U+10438", "U+10439", "U+1043A", "U+1043B",
      "U+1043C", "U+1043D", "U+1043E", "U+1043F", "U+10440", "U+10441",
      "U+10442", "U+10443", "U+10444", "U+10445", "U+10446", "U+10447",
      "U+10448", "U+10449", "U+1044A", "U+1044B", "U+1044C", "U+1044D",
      "U+1044E", "U+1044F", "U+104D8", "U+104D9", "U+104DA", "U+104DB",
      "U+104DC", "U+104DD", "U+104DE", "U+104DF", "U+104E0", "U+104E1",
      "U+104E2", "U+104E3", "U+104E4", "U+104E5", "U+104E6", "U+104E7",
      "U+104E8", "U+104E9", "U+104EA", "U+104EB", "U+104EC", "U+104ED",
      "U+104EE", "U+104EF", "U+104F0", "U+104F1", "U+104F2", "U+104F3",
      "U+104F4", "U+104F5", "U+104F6", "U+104F7", "U+104F8", "U+104F9",
      "U+104FA", "U+104FB", "U+10597", "U+10598", "U+10599", "U+1059A",
      "U+1059B", "U+1059C", "U+1059D", "U+1059E", "U+1059F", "U+105A0",
      "U+105A1", "U+105A3", "U+105A4", "U+105A5", "U+105A6", "U+105A7",
      "U+105A8", "U+105A9", "U+105AA", "U+105AB", "U+105AC", "U+105AD",
      "U+105AE", "U+105AF", "U+105B0", "U+105B1", "U+105B3", "U+105B4",
      "U+105B5", "U+105B6", "U+105B7", "U+105B8", "U+105B9", "U+105BB",
      "U+105BC", "U+10CC0", "U+10CC1", "U+10CC2", "U+10CC3", "U+10CC4",
      "U+10CC5", "U+10CC6", "U+10CC7", "U+10CC8", "U+10CC9", "U+10CCA",
      "U+10CCB", "U+10CCC", "U+10CCD", "U+10CCE", "U+10CCF", "U+10CD0",
      "U+10CD1", "U+10CD2", "U+10CD3", "U+10CD4", "U+10CD5", "U+10CD6",
      "U+10CD7", "U+10CD8", "U+10CD9", "U+10CDA", "U+10CDB", "U+10CDC",
      "U+10CDD", "U+10CDE", "U+10CDF", "U+10CE0", "U+10CE1", "U+10CE2",
      "U+10CE3", "U+10CE4", "U+10CE5", "U+10CE6", "U+10CE7", "U+10CE8",
      "U+10CE9", "U+10CEA", "U+10CEB", "U+10CEC", "U+10CED", "U+10CEE",
      "U+10CEF", "U+10CF0", "U+10CF1", "U+10CF2", "U+118C0", "U+118C1",
      "U+118C2", "U+118C3", "U+118C4", "U+118C5", "U+118C6", "U+118C7",
      "U+118C8", "U+118C9", "U+118CA", "U+118CB", "U+118CC", "U+118CD",
      "U+118CE", "U+118CF", "U+118D0", "U+118D1", "U+118D2", "U+118D3",
      "U+118D4", "U+118D5", "U+118D6", "U+118D7", "U+118D8", "U+118D9",
      "U+118DA", "U+118DB", "U+118DC", "U+118DD", "U+118DE", "U+118DF",
      "U+16E60", "U+16E61", "U+16E62", "U+16E63", "U+16E64", "U+16E65",
      "U+16E66", "U+16E67", "U+16E68", "U+16E69", "U+16E6A", "U+16E6B",
      "U+16E6C", "U+16E6D", "U+16E6E", "U+16E6F", "U+16E70", "U+16E71",
      "U+16E72", "U+16E73", "U+16E74", "U+16E75", "U+16E76", "U+16E77",
      "U+16E78", "U+16E79", "U+16E7A", "U+16E7B", "U+16E7C", "U+16E7D",
      "U+16E7E", "U+16E7F", "U+1E922", "U+1E923", "U+1E924", "U+1E925",
      "U+1E926", "U+1E927", "U+1E928", "U+1E929", "U+1E92A", "U+1E92B",
      "U+1E92C", "U+1E92D", "U+1E92E", "U+1E92F", "U+1E930", "U+1E931",
      "U+1E932", "U+1E933", "U+1E934", "U+1E935", "U+1E936", "U+1E937",
      "U+1E938", "U+1E939", "U+1E93A", "U+1E93B", "U+1E93C", "U+1E93D",
      "U+1E93E", "U+1E93F", "U+1E940", "U+1E941", "U+1E942", "U+1E943">>

MayusculasUnicode ==
    <<<<"A">>, <<"B">>, <<"C">>, <<"D">>, <<"E">>, <<"F">>, <<"G">>, <<"H">>,
      <<"I">>, <<"J">>, <<"K">>, <<"L">>, <<"M">>, <<"N">>, <<"O">>, <<"P">>,
      <<"Q">>, <<"R">>, <<"S">>, <<"T">>, <<"U">>, <<"V">>, <<"W">>, <<"X">>,
      <<"Y">>, <<"Z">>, <<"U+039C">>, <<"S", "S">>, <<"À">>, <<"Á">>,
      <<"Â">>, <<"Ã">>, <<"Ä">>, <<"Å">>, <<"Æ">>, <<"Ç">>, <<"È">>, <<"É">>,
      <<"Ê">>, <<"Ë">>, <<"Ì">>, <<"Í">>, <<"Î">>, <<"Ï">>, <<"Ð">>, <<"Ñ">>,
      <<"Ò">>, <<"Ó">>, <<"Ô">>, <<"Õ">>, <<"Ö">>, <<"Ø">>, <<"Ù">>, <<"Ú">>,
      <<"Û">>, <<"Ü">>, <<"Ý">>, <<"Þ">>, <<"U+0178">>, <<"U+0100">>,
      <<"U+0102">>, <<"U+0104">>, <<"U+0106">>, <<"U+0108">>, <<"U+010A">>,
      <<"U+010C">>, <<"U+010E">>, <<"U+0110">>, <<"U+0112">>, <<"U+0114">>,
      <<"U+0116">>, <<"U+0118">>, <<"U+011A">>, <<"U+011C">>, <<"U+011E">>,
      <<"U+0120">>, <<"U+0122">>, <<"U+0124">>, <<"U+0126">>, <<"U+0128">>,
      <<"U+012A">>, <<"U+012C">>, <<"U+012E">>, <<"I">>, <<"U+0132">>,
      <<"U+0134">>, <<"U+0136">>, <<"U+0139">>, <<"U+013B">>, <<"U+013D">>,
      <<"U+013F">>, <<"U+0141">>, <<"U+0143">>, <<"U+0145">>, <<"U+0147">>,
      <<"U+02BC", "N">>, <<"U+014A">>, <<"U+014C">>, <<"U+014E">>,
      <<"U+0150">>, <<"U+0152">>, <<"U+0154">>, <<"U+0156">>, <<"U+0158">>,
      <<"U+015A">>, <<"U+015C">>, <<"U+015E">>, <<"U+0160">>, <<"U+0162">>,
      <<"U+0164">>, <<"U+0166">>, <<"U+0168">>, <<"U+016A">>, <<"U+016C">>,
      <<"U+016E">>, <<"U+0170">>, <<"U+0172">>, <<"U+0174">>, <<"U+0176">>,
      <<"U+0179">>, <<"U+017B">>, <<"U+017D">>, <<"S">>, <<"U+0243">>,
      <<"U+0182">>, <<"U+0184">>, <<"U+0187">>, <<"U+018B">>, <<"U+0191">>,
      <<"U+01F6">>, <<"U+0198">>, <<"U+023D">>, <<"U+0220">>, <<"U+01A0">>,
      <<"U+01A2">>, <<"U+01A4">>, <<"U+01A7">>, <<"U+01AC">>, <<"U+01AF">>,
      <<"U+01B3">>, <<"U+01B5">>, <<"U+01B8">>, <<"U+01BC">>, <<"U+01F7">>,
      <<"U+01C4">>, <<"U+01C4">>, <<"U+01C7">>, <<"U+01C7">>, <<"U+01CA">>,
      <<"U+01CA">>, <<"U+01CD">>, <<"U+01CF">>, <<"U+01D1">>, <<"U+01D3">>,
      <<"U+01D5">>, <<"U+01D7">>, <<"U+01D9">>, <<"U+01DB">>, <<"U+018E">>,
      <<"U+01DE">>, <<"U+01E0">>, <<"U+01E2">>, <<"U+01E4">>, <<"U+01E6">>,
      <<"U+01E8">>, <<"U+01EA">>, <<"U+01EC">>, <<"U+01EE">>,
      <<"J", "U+030C">>, <<"U+01F1">>, <<"U+01F1">>, <<"U+01F4">>,
      <<"U+01F8">>, <<"U+01FA">>, <<"U+01FC">>, <<"U+01FE">>, <<"U+0200">>,
      <<"U+0202">>, <<"U+0204">>, <<"U+0206">>, <<"U+0208">>, <<"U+020A">>,
      <<"U+020C">>, <<"U+020E">>, <<"U+0210">>, <<"U+0212">>, <<"U+0214">>,
      <<"U+0216">>, <<"U+0218">>, <<"U+021A">>, <<"U+021C">>, <<"U+021E">>,
      <<"U+0222">>, <<"U+0224">>, <<"U+0226">>, <<"U+0228">>, <<"U+022A">>,
      <<"U+022C">>, <<"U+022E">>, <<"U+0230">>, <<"U+0232">>, <<"U+023B">>,
      <<"U+2C7E">>, <<"U+2C7F">>, <<"U+0241">>, <<"U+0246">>, <<"U+0248">>,
      <<"U+024A">>, <<"U+024C">>, <<"U+024E">>, <<"U+2C6F">>, <<"U+2C6D">>,
      <<"U+2C70">>, <<"U+0181">>, <<"U+0186">>, <<"U+0189">>, <<"U+018A">>,
      <<"U+018F">>, <<"U+0190">>, <<"U+A7AB">>, <<"U+0193">>, <<"U+A7AC">>,
      <<"U+0194">>, <<"U+A78D">>, <<"U+A7AA">>, <<"U+0197">>, <<"U+0196">>,
      <<"U+A7AE">>, <<"U+2C62">>, <<"U+A7AD">>, <<"U+019C">>, <<"U+2C6E">>,
      <<"U+019D">>, <<"U+019F">>, <<"U+2C64">>, <<"U+01A6">>, <<"U+A7C5">>,
      <<"U+01A9">>, <<"U+A7B1">>, <<"U+01AE">>, <<"U+0244">>, <<"U+01B1">>,
      <<"U+01B2">>, <<"U+0245">>, <<"U+01B7">>, <<"U+A7B2">>, <<"U+A7B0">>,
      <<"U+0399">>, <<"U+0370">>, <<"U+0372">>, <<"U+0376">>, <<"U+03FD">>,
      <<"U+03FE">>, <<"U+03FF">>, <<"U+0399", "U+0308", "U+0301">>,
      <<"U+0386">>, <<"U+0388">>, <<"U+0389">>, <<"U+038A">>,
      <<"U+03A5", "U+0308", "U+0301">>, <<"U+0391">>, <<"U+0392">>,
      <<"U+0393">>, <<"U+0394">>, <<"U+0395">>, <<"U+0396">>, <<"U+0397">>,
      <<"U+0398">>, <<"U+0399">>, <<"U+039A">>, <<"U+039B">>, <<"U+039C">>,
      <<"U+039D">>, <<"U+039E">>, <<"U+039F">>, <<"U+03A0">>, <<"U+03A1">>,
      <<"U+03A3">>, <<"U+03A3">>, <<"U+03A4">>, <<"U+03A5">>, <<"U+03A6">>,
      <<"U+03A7">>, <<"U+03A8">>, <<"U+03A9">>, <<"U+03AA">>, <<"U+03AB">>,
      <<"U+038C">>, <<"U+038E">>, <<"U+038F">>, <<"U+0392">>, <<"U+0398">>,
      <<"U+03A6">>, <<"U+03A0">>, <<"U+03CF">>, <<"U+03D8">>, <<"U+03DA">>,
      <<"U+03DC">>, <<"U+03DE">>, <<"U+03E0">>, <<"U+03E2">>, <<"U+03E4">>,
      <<"U+03E6">>, <<"U+03E8">>, <<"U+03EA">>, <<"U+03EC">>, <<"U+03EE">>,
      <<"U+039A">>, <<"U+03A1">>, <<"U+03F9">>, <<"U+037F">>, <<"U+0395">>,
      <<"U+03F7">>, <<"U+03FA">>, <<"U+0410">>, <<"U+0411">>, <<"U+0412">>,
      <<"U+0413">>, <<"U+0414">>, <<"U+0415">>, <<"U+0416">>, <<"U+0417">>,
      <<"U+0418">>, <<"U+0419">>, <<"U+041A">>, <<"U+041B">>, <<"U+041C">>,
      <<"U+041D">>, <<"U+041E">>, <<"U+041F">>, <<"U+0420">>, <<"U+0421">>,
      <<"U+0422">>, <<"U+0423">>, <<"U+0424">>, <<"U+0425">>, <<"U+0426">>,
      <<"U+0427">>, <<"U+0428">>, <<"U+0429">>, <<"U+042A">>, <<"U+042B">>,
      <<"U+042C">>, <<"U+042D">>, <<"U+042E">>, <<"U+042F">>, <<"U+0400">>,
      <<"U+0401">>, <<"U+0402">>, <<"U+0403">>, <<"U+0404">>, <<"U+0405">>,
      <<"U+0406">>, <<"U+0407">>, <<"U+0408">>, <<"U+0409">>, <<"U+040A">>,
      <<"U+040B">>, <<"U+040C">>, <<"U+040D">>, <<"U+040E">>, <<"U+040F">>,
      <<"U+0460">>, <<"U+0462">>, <<"U+0464">>, <<"U+0466">>, <<"U+0468">>,
      <<"U+046A">>, <<"U+046C">>, <<"U+046E">>, <<"U+0470">>, <<"U+0472">>,
      <<"U+0474">>, <<"U+0476">>, <<"U+0478">>, <<"U+047A">>, <<"U+047C">>,
      <<"U+047E">>, <<"U+0480">>, <<"U+048A">>, <<"U+048C">>, <<"U+048E">>,
      <<"U+0490">>, <<"U+0492">>, <<"U+0494">>, <<"U+0496">>, <<"U+0498">>,
      <<"U+049A">>, <<"U+049C">>, <<"U+049E">>, <<"U+04A0">>, <<"U+04A2">>,
      <<"U+04A4">>, <<"U+04A6">>, <<"U+04A8">>, <<"U+04AA">>, <<"U+04AC">>,
      <<"U+04AE">>, <<"U+04B0">>, <<"U+04B2">>, <<"U+04B4">>, <<"U+04B6">>,
      <<"U+04B8">>, <<"U+04BA">>, <<"U+04BC">>, <<"U+04BE">>, <<"U+04C1">>,
      <<"U+04C3">>, <<"U+04C5">>, <<"U+04C7">>, <<"U+04C9">>, <<"U+04CB">>,
      <<"U+04CD">>, <<"U+04C0">>, <<"U+04D0">>, <<"U+04D2">>, <<"U+04D4">>,
      <<"U+04D6">>, <<"U+04D8">>, <<"U+04DA">>, <<"U+04DC">>, <<"U+04DE">>,
      <<"U+04E0">>, <<"U+04E2">>, <<"U+04E4">>, <<"U+04E6">>, <<"U+04E8">>,
      <<"U+04EA">>, <<"U+04EC">>, <<"U+04EE">>, <<"U+04F0">>, <<"U+04F2">>,
      <<"U+04F4">>, <<"U+04F6">>, <<"U+04F8">>, <<"U+04FA">>, <<"U+04FC">>,
      <<"U+04FE">>, <<"U+0500">>, <<"U+0502">>, <<"U+0504">>, <<"U+0506">>,
      <<"U+0508">>, <<"U+050A">>, <<"U+050C">>, <<"U+050E">>, <<"U+0510">>,
      <<"U+0512">>, <<"U+0514">>, <<"U+0516">>, <<"U+0518">>, <<"U+051A">>,
      <<"U+051C">>, <<"U+051E">>, <<"U+0520">>, <<"U+0522">>, <<"U+0524">>,
      <<"U+0526">>, <<"U+0528">>, <<"U+052A">>, <<"U+052C">>, <<"U+052E">>,
      <<"U+0531">>, <<"U+0532">>, <<"U+0533">>, <<"U+0534">>, <<"U+0535">>,
      <<"U+0536">>, <<"U+0537">>, <<"U+0538">>, <<"U+0539">>, <<"U+053A">>,
      <<"U+053B">>, <<"U+053C">>, <<"U+053D">>, <<"U+053E">>, <<"U+053F">>,
      <<"U+0540">>, <<"U+0541">>, <<"U+0542">>, <<"U+0543">>, <<"U+0544">>,
      <<"U+0545">>, <<"U+0546">>, <<"U+0547">>, <<"U+0548">>, <<"U+0549">>,
      <<"U+054A">>, <<"U+054B">>, <<"U+054C">>, <<"U+054D">>, <<"U+054E">>,
      <<"U+054F">>, <<"U+0550">>, <<"U+0551">>, <<"U+0552">>, <<"U+0553">>,
      <<"U+0554">>, <<"U+0555">>, <<"U+0556">>, <<"U+0535", "U+0552">>,
      <<"U+1C90">>, <<"U+1C91">>, <<"U+1C92">>, <<"U+1C93">>, <<"U+1C94">>,
      <<"U+1C95">>, <<"U+1C96">>, <<"U+1C97">>, <<"U+1C98">>, <<"U+1C99">>,
      <<"U+1C9A">>, <<"U+1C9B">>, <<"U+1C9C">>, <<"U+1C9D">>, <<"U+1C9E">>,
      <<"U+1C9F">>, <<"U+1CA0">>, <<"U+1CA1">>, <<"U+1CA2">>, <<"U+1CA3">>,
      <<"U+1CA4">>, <<"U+1CA5">>, <<"U+1CA6">>, <<"U+1CA7">>, <<"U+1CA8">>,
      <<"U+1CA9">>, <<"U+1CAA">>, <<"U+1CAB">>, <<"U+1CAC">>, <<"U+1CAD">>,
      <<"U+1CAE">>, <<"U+1CAF">>, <<"U+1CB0">>, <<"U+1CB1">>, <<"U+1CB2">>,
      <<"U+1CB3">>, <<"U+1CB4">>, <<"U+1CB5">>, <<"U+1CB6">>, <<"U+1CB7">>,
      <<"U+1CB8">>, <<"U+1CB9">>, <<"U+1CBA">>, <<"U+1CBD">>, <<"U+1CBE">>,
      <<"U+1CBF">>, <<"U+13F0">>, <<"U+13F1">>, <<"U+13F2">>, <<"U+13F3">>,
      <<"U+13F4">>, <<"U+13F5">>, <<"U+0412">>, <<"U+0414">>, <<"U+041E">>,
      <<"U+0421">>, <<"U+0422">>, <<"U+0422">>, <<"U+042A">>, <<"U+0462">>,
      <<"U+A64A">>, <<"U+A77D">>, <<"U+2C63">>, <<"U+A7C6">>, <<"U+1E00">>,
      <<"U+1E02">>, <<"U+1E04">>, <<"U+1E06">>, <<"U+1E08">>, <<"U+1E0A">>,
      <<"U+1E0C">>, <<"U+1E0E">>, <<"U+1E10">>, <<"U+1E12">>, <<"U+1E14">>,
      <<"U+1E16">>, <<"U+1E18">>, <<"U+1E1A">>, <<"U+1E1C">>, <<"U+1E1E">>,
      <<"U+1E20">>, <<"U+1E22">>, <<"U+1E24">>, <<"U+1E26">>, <<"U+1E28">>,
      <<"U+1E2A">>, <<"U+1E2C">>, <<"U+1E2E">>, <<"U+1E30">>, <<"U+1E32">>,
      <<"U+1E34">>, <<"U+1E36">>, <<"U+1E38">>, <<"U+1E3A">>, <<"U+1E3C">>,
      <<"U+1E3E">>, <<"U+1E40">>, <<"U+1E42">>, <<"U+1E44">>, <<"U+1E46">>,
      <<"U+1E48">>, <<"U+1E4A">>, <<"U+1E4C">>, <<"U+1E4E">>, <<"U+1E50">>,
      <<"U+1E52">>, <<"U+1E54">>, <<"U+1E56">>, <<"U+1E58">>, <<"U+1E5A">>,
      <<"U+1E5C">>, <<"U+1E5E">>, <<"U+1E60">>, <<"U+1E62">>, <<"U+1E64">>,
      <<"U+1E66">>, <<"U+1E68">>, <<"U+1E6A">>, <<"U+1E6C">>, <<"U+1E6E">>,
      <<"U+1E70">>, <<"U+1E72">>, <<"U+1E74">>, <<"U+1E76">>, <<"U+1E78">>,
      <<"U+1E7A">>, <<"U+1E7C">>, <<"U+1E7E">>, <<"U+1E80">>, <<"U+1E82">>,
      <<"U+1E84">>, <<"U+1E86">>, <<"U+1E88">>, <<"U+1E8A">>, <<"U+1E8C">>,
      <<"U+1E8E">>, <<"U+1E90">>, <<"U+1E92">>, <<"U+1E94">>,
      <<"H", "U+0331">>, <<"T", "U+0308">>, <<"W", "U+030A">>,
      <<"Y", "U+030A">>, <<"A", "U+02BE">>, <<"U+1E60">>, <<"U+1EA0">>,
      <<"U+1EA2">>, <<"U+1EA4">>, <<"U+1EA6">>, <<"U+1EA8">>, <<"U+1EAA">>,
      <<"U+1EAC">>, <<"U+1EAE">>, <<"U+1EB0">>, <<"U+1EB2">>, <<"U+1EB4">>,
      <<"U+1EB6">>, <<"U+1EB8">>, <<"U+1EBA">>, <<"U+1EBC">>, <<"U+1EBE">>,
      <<"U+1EC0">>, <<"U+1EC2">>, <<"U+1EC4">>, <<"U+1EC6">>, <<"U+1EC8">>,
      <<"U+1ECA">>, <<"U+1ECC">>, <<"U+1ECE">>, <<"U+1ED0">>, <<"U+1ED2">>,
      <<"U+1ED4">>, <<"U+1ED6">>, <<"U+1ED8">>, <<"U+1EDA">>, <<"U+1EDC">>,
      <<"U+1EDE">>, <<"U+1EE0">>, <<"U+1EE2">>, <<"U+1EE4">>, <<"U+1EE6">>,
      <<"U+1EE8">>, <<"U+1EEA">>, <<"U+1EEC">>, <<"U+1EEE">>, <<"U+1EF0">>,
      <<"U+1EF2">>, <<"U+1EF4">>, <<"U+1EF6">>, <<"U+1EF8">>, <<"U+1EFA">>,
      <<"U+1EFC">>, <<"U+1EFE">>, <<"U+1F08">>, <<"U+1F09">>, <<"U+1F0A">>,
      <<"U+1F0B">>, <<"U+1F0C">>, <<"U+1F0D">>, <<"U+1F0E">>, <<"U+1F0F">>,
      <<"U+1F18">>, <<"U+1F19">>, <<"U+1F1A">>, <<"U+1F1B">>, <<"U+1F1C">>,
      <<"U+1F1D">>, <<"U+1F28">>, <<"U+1F29">>, <<"U+1F2A">>, <<"U+1F2B">>,
      <<"U+1F2C">>, <<"U+1F2D">>, <<"U+1F2E">>, <<"U+1F2F">>, <<"U+1F38">>,
      <<"U+1F39">>, <<"U+1F3A">>, <<"U+1F3B">>, <<"U+1F3C">>, <<"U+1F3D">>,
      <<"U+1F3E">>, <<"U+1F3F">>, <<"U+1F48">>, <<"U+1F49">>, <<"U+1F4A">>,
      <<"U+1F4B">>, <<"U+1F4C">>, <<"U+1F4D">>, <<"U+03A5", "U+0313">>,
      <<"U+1F59">>, <<"U+03A5", "U+0313", "U+0300">>, <<"U+1F5B">>,
      <<"U+03A5", "U+0313", "U+0301">>, <<"U+1F5D">>,
      <<"U+03A5", "U+0313", "U+0342">>, <<"U+1F5F">>, <<"U+1F68">>,
      <<"U+1F69">>, <<"U+1F6A">>, <<"U+1F6B">>, <<"U+1F6C">>, <<"U+1F6D">>,
      <<"U+1F6E">>, <<"U+1F6F">>, <<"U+1FBA">>, <<"U+1FBB">>, <<"U+1FC8">>,
      <<"U+1FC9">>, <<"U+1FCA">>, <<"U+1FCB">>, <<"U+1FDA">>, <<"U+1FDB">>,
      <<"U+1FF8">>, <<"U+1FF9">>, <<"U+1FEA">>, <<"U+1FEB">>, <<"U+1FFA">>,
      <<"U+1FFB">>, <<"U+1F08", "U+0399">>, <<"U+1F09", "U+0399">>,
      <<"U+1F0A", "U+0399">>, <<"U+1F0B", "U+0399">>, <<"U+1F0C", "U+0399">>,
      <<"U+1F0D", "U+0399">>, <<"U+1F0E", "U+0399">>, <<"U+1F0F", "U+0399">>,
      <<"U+1F08", "U+0399">>, <<"U+1F09", "U+0399">>, <<"U+1F0A", "U+0399">>,
      <<"U+1F0B", "U+0399">>, <<"U+1F0C", "U+0399">>, <<"U+1F0D", "U+0399">>,
      <<"U+1F0E", "U+0399">>, <<"U+1F0F", "U+0399">>, <<"U+1F28", "U+0399">>,
      <<"U+1F29", "U+0399">>, <<"U+1F2A", "U+0399">>, <<"U+1F2B", "U+0399">>,
      <<"U+1F2C", "U+0399">>, <<"U+1F2D", "U+0399">>, <<"U+1F2E", "U+0399">>,
      <<"U+1F2F", "U+0399">>, <<"U+1F28", "U+0399">>, <<"U+1F29", "U+0399">>,
      <<"U+1F2A", "U+0399">>, <<"U+1F2B", "U+0399">>, <<"U+1F2C", "U+0399">>,
      <<"U+1F2D", "U+0399">>, <<"U+1F2E", "U+0399">>, <<"U+1F2F", "U+0399">>,
      <<"U+1F68", "U+0399">>, <<"U+1F69", "U+0399">>, <<"U+1F6A", "U+0399">>,
      <<"U+1F6B", "U+0399">>, <<"U+1F6C", "U+0399">>, <<"U+1F6D", "U+0399">>,
      <<"U+1F6E", "U+0399">>, <<"U+1F6F", "U+0399">>, <<"U+1F68", "U+0399">>,
      <<"U+1F69", "U+0399">>, <<"U+1F6A", "U+0399">>, <<"U+1F6B", "U+0399">>,
      <<"U+1F6C", "U+0399">>, <<"U+1F6D", "U+0399">>, <<"U+1F6E", "U+0399">>,
      <<"U+1F6F", "U+0399">>, <<"U+1FB8">>, <<"U+1FB9">>,
      <<"U+1FBA", "U+0399">>, <<"U+0391", "U+0399">>, <<"U+0386", "U+0399">>,
      <<"U+0391", "U+0342">>, <<"U+0391", "U+0342", "U+0399">>,
      <<"U+0391", "U+0399">>, <<"U+0399">>, <<"U+1FCA", "U+0399">>,
      <<"U+0397", "U+0399">>, <<"U+0389", "U+0399">>, <<"U+0397", "U+0342">>,
      <<"U+0397", "U+0342", "U+0399">>, <<"U+0397", "U+0399">>, <<"U+1FD8">>,
      <<"U+1FD9">>, <<"U+0399", "U+0308", "U+0300">>,
      <<"U+0399", "U+0308", "U+0301">>, <<"U+0399", "U+0342">>,
      <<"U+0399", "U+0308", "U+0342">>, <<"U+1FE8">>, <<"U+1FE9">>,
      <<"U+03A5", "U+0308", "U+0300">>, <<"U+03A5", "U+0308", "U+0301">>,
      <<"U+03A1", "U+0313">>, <<"U+1FEC">>, <<"U+03A5", "U+0342">>,
      <<"U+03A5", "U+0308", "U+0342">>, <<"U+1FFA", "U+0399">>,
      <<"U+03A9", "U+0399">>, <<"U+038F", "U+0399">>, <<"U+03A9", "U+0342">>,
      <<"U+03A9", "U+0342", "U+0399">>, <<"U+03A9", "U+0399">>, <<"U+2132">>,
      <<"U+2160">>, <<"U+2161">>, <<"U+2162">>, <<"U+2163">>, <<"U+2164">>,
      <<"U+2165">>, <<"U+2166">>, <<"U+2167">>, <<"U+2168">>, <<"U+2169">>,
      <<"U+216A">>, <<"U+216B">>, <<"U+216C">>, <<"U+216D">>, <<"U+216E">>,
      <<"U+216F">>, <<"U+2183">>, <<"U+24B6">>, <<"U+24B7">>, <<"U+24B8">>,
      <<"U+24B9">>, <<"U+24BA">>, <<"U+24BB">>, <<"U+24BC">>, <<"U+24BD">>,
      <<"U+24BE">>, <<"U+24BF">>, <<"U+24C0">>, <<"U+24C1">>, <<"U+24C2">>,
      <<"U+24C3">>, <<"U+24C4">>, <<"U+24C5">>, <<"U+24C6">>, <<"U+24C7">>,
      <<"U+24C8">>, <<"U+24C9">>, <<"U+24CA">>, <<"U+24CB">>, <<"U+24CC">>,
      <<"U+24CD">>, <<"U+24CE">>, <<"U+24CF">>, <<"U+2C00">>, <<"U+2C01">>,
      <<"U+2C02">>, <<"U+2C03">>, <<"U+2C04">>, <<"U+2C05">>, <<"U+2C06">>,
      <<"U+2C07">>, <<"U+2C08">>, <<"U+2C09">>, <<"U+2C0A">>, <<"U+2C0B">>,
      <<"U+2C0C">>, <<"U+2C0D">>, <<"U+2C0E">>, <<"U+2C0F">>, <<"U+2C10">>,
      <<"U+2C11">>, <<"U+2C12">>, <<"U+2C13">>, <<"U+2C14">>, <<"U+2C15">>,
      <<"U+2C16">>, <<"U+2C17">>, <<"U+2C18">>, <<"U+2C19">>, <<"U+2C1A">>,
      <<"U+2C1B">>, <<"U+2C1C">>, <<"U+2C1D">>, <<"U+2C1E">>, <<"U+2C1F">>,
      <<"U+2C20">>, <<"U+2C21">>, <<"U+2C22">>, <<"U+2C23">>, <<"U+2C24">>,
      <<"U+2C25">>, <<"U+2C26">>, <<"U+2C27">>, <<"U+2C28">>, <<"U+2C29">>,
      <<"U+2C2A">>, <<"U+2C2B">>, <<"U+2C2C">>, <<"U+2C2D">>, <<"U+2C2E">>,
      <<"U+2C2F">>, <<"U+2C60">>, <<"U+023A">>, <<"U+023E">>, <<"U+2C67">>,
      <<"U+2C69">>, <<"U+2C6B">>, <<"U+2C72">>, <<"U+2C75">>, <<"U+2C80">>,
      <<"U+2C82">>, <<"U+2C84">>, <<"U+2C86">>, <<"U+2C88">>, <<"U+2C8A">>,
      <<"U+2C8C">>, <<"U+2C8E">>, <<"U+2C90">>, <<"U+2C92">>, <<"U+2C94">>,
      <<"U+2C96">>, <<"U+2C98">>, <<"U+2C9A">>, <<"U+2C9C">>, <<"U+2C9E">>,
      <<"U+2CA0">>, <<"U+2CA2">>, <<"U+2CA4">>, <<"U+2CA6">>, <<"U+2CA8">>,
      <<"U+2CAA">>, <<"U+2CAC">>, <<"U+2CAE">>, <<"U+2CB0">>, <<"U+2CB2">>,
      <<"U+2CB4">>, <<"U+2CB6">>, <<"U+2CB8">>, <<"U+2CBA">>, <<"U+2CBC">>,
      <<"U+2CBE">>, <<"U+2CC0">>, <<"U+2CC2">>, <<"U+2CC4">>, <<"U+2CC6">>,
      <<"U+2CC8">>, <<"U+2CCA">>, <<"U+2CCC">>, <<"U+2CCE">>, <<"U+2CD0">>,
      <<"U+2CD2">>, <<"U+2CD4">>, <<"U+2CD6">>, <<"U+2CD8">>, <<"U+2CDA">>,
      <<"U+2CDC">>, <<"U+2CDE">>, <<"U+2CE0">>, <<"U+2CE2">>, <<"U+2CEB">>,
      <<"U+2CED">>, <<"U+2CF2">>, <<"U+10A0">>, <<"U+10A1">>, <<"U+10A2">>,
      <<"U+10A3">>, <<"U+10A4">>, <<"U+10A5">>, <<"U+10A6">>, <<"U+10A7">>,
      <<"U+10A8">>, <<"U+10A9">>, <<"U+10AA">>, <<"U+10AB">>, <<"U+10AC">>,
      <<"U+10AD">>, <<"U+10AE">>, <<"U+10AF">>, <<"U+10B0">>, <<"U+10B1">>,
      <<"U+10B2">>, <<"U+10B3">>, <<"U+10B4">>, <<"U+10B5">>, <<"U+10B6">>,
      <<"U+10B7">>, <<"U+10B8">>, <<"U+10B9">>, <<"U+10BA">>, <<"U+10BB">>,
      <<"U+10BC">>, <<"U+10BD">>, <<"U+10BE">>, <<"U+10BF">>, <<"U+10C0">>,
      <<"U+10C1">>, <<"U+10C2">>, <<"U+10C3">>, <<"U+10C4">>, <<"U+10C5">>,
      <<"U+10C7">>, <<"U+10CD">>, <<"U+A640">>, <<"U+A642">>, <<"U+A644">>,
      <<"U+A646">>, <<"U+A648">>, <<"U+A64A">>, <<"U+A64C">>, <<"U+A64E">>,
      <<"U+A650">>, <<"U+A652">>, <<"U+A654">>, <<"U+A656">>, <<"U+A658">>,
      <<"U+A65A">>, <<"U+A65C">>, <<"U+A65E">>, <<"U+A660">>, <<"U+A662">>,
      <<"U+A664">>, <<"U+A666">>, <<"U+A668">>, <<"U+A66A">>, <<"U+A66C">>,
      <<"U+A680">>, <<"U+A682">>, <<"U+A684">>, <<"U+A686">>, <<"U+A688">>,
      <<"U+A68A">>, <<"U+A68C">>, <<"U+A68E">>, <<"U+A690">>, <<"U+A692">>,
      <<"U+A694">>, <<"U+A696">>, <<"U+A698">>, <<"U+A69A">>, <<"U+A722">>,
      <<"U+A724">>, <<"U+A726">>, <<"U+A728">>, <<"U+A72A">>, <<"U+A72C">>,
      <<"U+A72E">>, <<"U+A732">>, <<"U+A734">>, <<"U+A736">>, <<"U+A738">>,
      <<"U+A73A">>, <<"U+A73C">>, <<"U+A73E">>, <<"U+A740">>, <<"U+A742">>,
      <<"U+A744">>, <<"U+A746">>, <<"U+A748">>, <<"U+A74A">>, <<"U+A74C">>,
      <<"U+A74E">>, <<"U+A750">>, <<"U+A752">>, <<"U+A754">>, <<"U+A756">>,
      <<"U+A758">>, <<"U+A75A">>, <<"U+A75C">>, <<"U+A75E">>, <<"U+A760">>,
      <<"U+A762">>, <<"U+A764">>, <<"U+A766">>, <<"U+A768">>, <<"U+A76A">>,
      <<"U+A76C">>, <<"U+A76E">>, <<"U+A779">>, <<"U+A77B">>, <<"U+A77E">>,
      <<"U+A780">>, <<"U+A782">>, <<"U+A784">>, <<"U+A786">>, <<"U+A78B">>,
      <<"U+A790">>, <<"U+A792">>, <<"U+A7C4">>, <<"U+A796">>, <<"U+A798">>,
      <<"U+A79A">>, <<"U+A79C">>, <<"U+A79E">>, <<"U+A7A0">>, <<"U+A7A2">>,
      <<"U+A7A4">>, <<"U+A7A6">>, <<"U+A7A8">>, <<"U+A7B4">>, <<"U+A7B6">>,
      <<"U+A7B8">>, <<"U+A7BA">>, <<"U+A7BC">>, <<"U+A7BE">>, <<"U+A7C0">>,
      <<"U+A7C2">>, <<"U+A7C7">>, <<"U+A7C9">>, <<"U+A7D0">>, <<"U+A7D6">>,
      <<"U+A7D8">>, <<"U+A7F5">>, <<"U+A7B3">>, <<"U+13A0">>, <<"U+13A1">>,
      <<"U+13A2">>, <<"U+13A3">>, <<"U+13A4">>, <<"U+13A5">>, <<"U+13A6">>,
      <<"U+13A7">>, <<"U+13A8">>, <<"U+13A9">>, <<"U+13AA">>, <<"U+13AB">>,
      <<"U+13AC">>, <<"U+13AD">>, <<"U+13AE">>, <<"U+13AF">>, <<"U+13B0">>,
      <<"U+13B1">>, <<"U+13B2">>, <<"U+13B3">>, <<"U+13B4">>, <<"U+13B5">>,
      <<"U+13B6">>, <<"U+13B7">>, <<"U+13B8">>, <<"U+13B9">>, <<"U+13BA">>,
      <<"U+13BB">>, <<"U+13BC">>, <<"U+13BD">>, <<"U+13BE">>, <<"U+13BF">>,
      <<"U+13C0">>, <<"U+13C1">>, <<"U+13C2">>, <<"U+13C3">>, <<"U+13C4">>,
      <<"U+13C5">>, <<"U+13C6">>, <<"U+13C7">>, <<"U+13C8">>, <<"U+13C9">>,
      <<"U+13CA">>, <<"U+13CB">>, <<"U+13CC">>, <<"U+13CD">>, <<"U+13CE">>,
      <<"U+13CF">>, <<"U+13D0">>, <<"U+13D1">>, <<"U+13D2">>, <<"U+13D3">>,
      <<"U+13D4">>, <<"U+13D5">>, <<"U+13D6">>, <<"U+13D7">>, <<"U+13D8">>,
      <<"U+13D9">>, <<"U+13DA">>, <<"U+13DB">>, <<"U+13DC">>, <<"U+13DD">>,
      <<"U+13DE">>, <<"U+13DF">>, <<"U+13E0">>, <<"U+13E1">>, <<"U+13E2">>,
      <<"U+13E3">>, <<"U+13E4">>, <<"U+13E5">>, <<"U+13E6">>, <<"U+13E7">>,
      <<"U+13E8">>, <<"U+13E9">>, <<"U+13EA">>, <<"U+13EB">>, <<"U+13EC">>,
      <<"U+13ED">>, <<"U+13EE">>, <<"U+13EF">>, <<"F", "F">>, <<"F", "I">>,
      <<"F", "L">>, <<"F", "F", "I">>, <<"F", "F", "L">>, <<"S", "T">>,
      <<"S", "T">>, <<"U+0544", "U+0546">>, <<"U+0544", "U+0535">>,
      <<"U+0544", "U+053B">>, <<"U+054E", "U+0546">>, <<"U+0544", "U+053D">>,
      <<"U+FF21">>, <<"U+FF22">>, <<"U+FF23">>, <<"U+FF24">>, <<"U+FF25">>,
      <<"U+FF26">>, <<"U+FF27">>, <<"U+FF28">>, <<"U+FF29">>, <<"U+FF2A">>,
      <<"U+FF2B">>, <<"U+FF2C">>, <<"U+FF2D">>, <<"U+FF2E">>, <<"U+FF2F">>,
      <<"U+FF30">>, <<"U+FF31">>, <<"U+FF32">>, <<"U+FF33">>, <<"U+FF34">>,
      <<"U+FF35">>, <<"U+FF36">>, <<"U+FF37">>, <<"U+FF38">>, <<"U+FF39">>,
      <<"U+FF3A">>, <<"U+10400">>, <<"U+10401">>, <<"U+10402">>,
      <<"U+10403">>, <<"U+10404">>, <<"U+10405">>, <<"U+10406">>,
      <<"U+10407">>, <<"U+10408">>, <<"U+10409">>, <<"U+1040A">>,
      <<"U+1040B">>, <<"U+1040C">>, <<"U+1040D">>, <<"U+1040E">>,
      <<"U+1040F">>, <<"U+10410">>, <<"U+10411">>, <<"U+10412">>,
      <<"U+10413">>, <<"U+10414">>, <<"U+10415">>, <<"U+10416">>,
      <<"U+10417">>, <<"U+10418">>, <<"U+10419">>, <<"U+1041A">>,
      <<"U+1041B">>, <<"U+1041C">>, <<"U+1041D">>, <<"U+1041E">>,
      <<"U+1041F">>, <<"U+10420">>, <<"U+10421">>, <<"U+10422">>,
      <<"U+10423">>, <<"U+10424">>, <<"U+10425">>, <<"U+10426">>,
      <<"U+10427">>, <<"U+104B0">>, <<"U+104B1">>, <<"U+104B2">>,
      <<"U+104B3">>, <<"U+104B4">>, <<"U+104B5">>, <<"U+104B6">>,
      <<"U+104B7">>, <<"U+104B8">>, <<"U+104B9">>, <<"U+104BA">>,
      <<"U+104BB">>, <<"U+104BC">>, <<"U+104BD">>, <<"U+104BE">>,
      <<"U+104BF">>, <<"U+104C0">>, <<"U+104C1">>, <<"U+104C2">>,
      <<"U+104C3">>, <<"U+104C4">>, <<"U+104C5">>, <<"U+104C6">>,
      <<"U+104C7">>, <<"U+104C8">>, <<"U+104C9">>, <<"U+104CA">>,
      <<"U+104CB">>, <<"U+104CC">>, <<"U+104CD">>, <<"U+104CE">>,
      <<"U+104CF">>, <<"U+104D0">>, <<"U+104D1">>, <<"U+104D2">>,
      <<"U+104D3">>, <<"U+10570">>, <<"U+10571">>, <<"U+10572">>,
      <<"U+10573">>, <<"U+10574">>, <<"U+10575">>, <<"U+10576">>,
      <<"U+10577">>, <<"U+10578">>, <<"U+10579">>, <<"U+1057A">>,
      <<"U+1057C">>, <<"U+1057D">>, <<"U+1057E">>, <<"U+1057F">>,
      <<"U+10580">>, <<"U+10581">>, <<"U+10582">>, <<"U+10583">>,
      <<"U+10584">>, <<"U+10585">>, <<"U+10586">>, <<"U+10587">>,
      <<"U+10588">>, <<"U+10589">>, <<"U+1058A">>, <<"U+1058C">>,
      <<"U+1058D">>, <<"U+1058E">>, <<"U+1058F">>, <<"U+10590">>,
      <<"U+10591">>, <<"U+10592">>, <<"U+10594">>, <<"U+10595">>,
      <<"U+10C80">>, <<"U+10C81">>, <<"U+10C82">>, <<"U+10C83">>,
      <<"U+10C84">>, <<"U+10C85">>, <<"U+10C86">>, <<"U+10C87">>,
      <<"U+10C88">>, <<"U+10C89">>, <<"U+10C8A">>, <<"U+10C8B">>,
      <<"U+10C8C">>, <<"U+10C8D">>, <<"U+10C8E">>, <<"U+10C8F">>,
      <<"U+10C90">>, <<"U+10C91">>, <<"U+10C92">>, <<"U+10C93">>,
      <<"U+10C94">>, <<"U+10C95">>, <<"U+10C96">>, <<"U+10C97">>,
      <<"U+10C98">>, <<"U+10C99">>, <<"U+10C9A">>, <<"U+10C9B">>,
      <<"U+10C9C">>, <<"U+10C9D">>, <<"U+10C9E">>, <<"U+10C9F">>,
      <<"U+10CA0">>, <<"U+10CA1">>, <<"U+10CA2">>, <<"U+10CA3">>,
      <<"U+10CA4">>, <<"U+10CA5">>, <<"U+10CA6">>, <<"U+10CA7">>,
      <<"U+10CA8">>, <<"U+10CA9">>, <<"U+10CAA">>, <<"U+10CAB">>,
      <<"U+10CAC">>, <<"U+10CAD">>, <<"U+10CAE">>, <<"U+10CAF">>,
      <<"U+10CB0">>, <<"U+10CB1">>, <<"U+10CB2">>, <<"U+118A0">>,
      <<"U+118A1">>, <<"U+118A2">>, <<"U+118A3">>, <<"U+118A4">>,
      <<"U+118A5">>, <<"U+118A6">>, <<"U+118A7">>, <<"U+118A8">>,
      <<"U+118A9">>, <<"U+118AA">>, <<"U+118AB">>, <<"U+118AC">>,
      <<"U+118AD">>, <<"U+118AE">>, <<"U+118AF">>, <<"U+118B0">>,
      <<"U+118B1">>, <<"U+118B2">>, <<"U+118B3">>, <<"U+118B4">>,
      <<"U+118B5">>, <<"U+118B6">>, <<"U+118B7">>, <<"U+118B8">>,
      <<"U+118B9">>, <<"U+118BA">>, <<"U+118BB">>, <<"U+118BC">>,
      <<"U+118BD">>, <<"U+118BE">>, <<"U+118BF">>, <<"U+16E40">>,
      <<"U+16E41">>, <<"U+16E42">>, <<"U+16E43">>, <<"U+16E44">>,
      <<"U+16E45">>, <<"U+16E46">>, <<"U+16E47">>, <<"U+16E48">>,
      <<"U+16E49">>, <<"U+16E4A">>, <<"U+16E4B">>, <<"U+16E4C">>,
      <<"U+16E4D">>, <<"U+16E4E">>, <<"U+16E4F">>, <<"U+16E50">>,
      <<"U+16E51">>, <<"U+16E52">>, <<"U+16E53">>, <<"U+16E54">>,
      <<"U+16E55">>, <<"U+16E56">>, <<"U+16E57">>, <<"U+16E58">>,
      <<"U+16E59">>, <<"U+16E5A">>, <<"U+16E5B">>, <<"U+16E5C">>,
      <<"U+16E5D">>, <<"U+16E5E">>, <<"U+16E5F">>, <<"U+1E900">>,
      <<"U+1E901">>, <<"U+1E902">>, <<"U+1E903">>, <<"U+1E904">>,
      <<"U+1E905">>, <<"U+1E906">>, <<"U+1E907">>, <<"U+1E908">>,
      <<"U+1E909">>, <<"U+1E90A">>, <<"U+1E90B">>, <<"U+1E90C">>,
      <<"U+1E90D">>, <<"U+1E90E">>, <<"U+1E90F">>, <<"U+1E910">>,
      <<"U+1E911">>, <<"U+1E912">>, <<"U+1E913">>, <<"U+1E914">>,
      <<"U+1E915">>, <<"U+1E916">>, <<"U+1E917">>, <<"U+1E918">>,
      <<"U+1E919">>, <<"U+1E91A">>, <<"U+1E91B">>, <<"U+1E91C">>,
      <<"U+1E91D">>, <<"U+1E91E">>, <<"U+1E91F">>, <<"U+1E920">>,
      <<"U+1E921">>>>

ConMayuscula == { MinusculasUnicode[i] : i \in DOMAIN MinusculasUnicode }

UpperCh(ch) ==
    IF ch \in ConMayuscula
    THEN MayusculasUnicode[CHOOSE i \in DOMAIN MinusculasUnicode : MinusculasUnicode[i] = ch]
    ELSE <<ch>>

\* str.upper()
RECURSIVE Upper(_)
Upper(s) == IF s = <<>> THEN <<>> ELSE UpperCh(Head(s)) \o Upper(Tail(s))

\* str.strip(): whitespace removed at both ends
StripKeep(s, keep) ==
    IF keep = {} THEN <<>>
    ELSE SubSeq(s, CHOOSE i \in keep : \A j \in keep : i <= j,
                   CHOOSE i \in keep : \A j \in keep : i >= j)

\* the characters str.isspace() holds for: tab, line feed, vertical tab, form
\* feed, carriage return, the four separators U+001C..U+001F, space, U+0085,
\* U+00A0 and the spaces and separators above U+00FF
Blancos ==
    {"\t", "\n", "", "\f", "\r", "", "", "", "", " ", "", " ",
     "U+1680", "U+2000", "U+2001", "U+2002", "U+2003", "U+2004", "U+2005",
     "U+2006", "U+2007", "U+2008", "U+2009", "U+200A", "U+2028", "U+2029",
     "U+202F", "U+205F", "U+3000"}

\* the white space int(text) skips: the same without U+001C..U+001F
BlancosDeC ==
    {"\t", "\n", "", "\f", "\r", " ", "", " ", "U+1680", "U+2000",
     "U+2001", "U+2002", "U+2003", "U+2004", "U+2005", "U+2006", "U+2007",
     "U+2008", "U+2009", "U+200A", "U+2028", "U+2029", "U+202F", "U+205F",
     "U+3000"}

StripDe(s, blancos) == StripKeep(s, { i \in 1..Len(s) : s[i] \notin blancos })

Strip(s) == StripDe(s, Blancos)

\* str.replace(ch, rep) for a one-character pattern and a replacement of at
\* most one character
Replace(s, ch, rep) ==
    IF rep = <<>> THEN LET Otro(x) == x # ch IN SelectSeq(s, Otro)
    ELSE [ i \in 1..Len(s) |-> IF s[i] = ch THEN rep[1] ELSE s[i] ]

\* str.count(ch)
Count(s, ch) == Cardinality({ i \in 1..Len(s) : s[i] = ch })

\* str.startswith(pref)
StartsWith(s, pref) ==
    Len(s) >= Len(pref) /\ SubSeq(s, 1, Len(pref)) = pref

AllDigits(s) == \A i \in 1..Len(s) : EsDigito(s[i])


\* the digits of a text of digits, as a coefficient
CifrasDeTexto(s) == SubSeq([ i \in 1..Len(s) |-> DigitVal(s[i]) ], 1, Len(s))

\* str(c) for a coefficient c # 0
CifrasTexto(c) == SubSeq([ i \in 1..Len(c) |-> Digitos[c[i] + 1] ], 1, Len(c))

\* the place of the first ch in s, or one past the end
PosDe(s, ch) ==
    IF \E i \in 1..Len(s) : s[i] = ch
    THEN CHOOSE i \in 1..Len(s) : s[i] = ch /\ \A j \in 1..(i - 1) : s[j] # ch
    ELSE Len(s) + 1

\* int(text) of [sign] digits; ok = FALSE when the text is something else, or
\* has more digits than sys.get_int_max_str_digits() allows (4300)
EnteroDeCuerpo(neg, body) ==
    IF body # <<>> /\ AllDigits(body) /\ Len(body) <= 4300
    THEN [ok |-> TRUE, n |-> Ent(neg, SinCerosDelante(CifrasDeTexto(body)))]
    ELSE [ok |-> FALSE, n |-> EntDe(0)]

EnteroConSigno(t) ==
    EnteroDeCuerpo(t # <<>> /\ Head(t) = "-",
                   IF t # <<>> /\ Head(t) \in {"-", "+"} THEN Tail(t) ELSE t)

\* the greatest exponent that the text of a Decimal may spell: 2^63 - 1
INT64_MAX == <<9, 2, 2, 3, 3, 7, 2, 0, 3, 6, 8, 5, 4, 7, 7, 5, 8, 0, 7>>

\* the exponent of a Decimal text, [sign] digits, read into a 64-bit integer:
\* ok = FALSE when it is something else or does not fit
ExponenteDeCuerpo(neg, body) ==
    IF body = <<>> \/ ~ AllDigits(body)
    THEN [ok |-> FALSE, n |-> EntDe(0)]
    ELSE IF CifrasMenor(IF neg THEN CifrasSuma(INT64_MAX, <<1>>) ELSE INT64_MAX,
                        SinCerosDelante(CifrasDeTexto(body)))
    THEN [ok |-> FALSE, n |-> EntDe(0)]
    ELSE [ok |-> TRUE, n |-> Ent(neg, SinCerosDelante(CifrasDeTexto(body)))]

ExponenteConSigno(t) ==
    ExponenteDeCuerpo(t # <<>> /\ Head(t) = "-",
                      IF t # <<>> /\ Head(t) \in {"-", "+"} THEN Tail(t) ELSE t)

\* Decimal(text) keeps every digit of the text, and admits the exponent e of
\* a coefficient of nd digits when e >= -1999999999999999997 and
\* e + nd - 1 <= 999999999999999999
ExponenteValido(e, nd) ==
    /\ ~ EntMenor(Ent(FALSE, SubSeq([i \in 1..18 |-> 9], 1, 18)), EntMas(e, nd - 1))
    /\ ~ EntMenor(e, Ent(TRUE, <<1>> \o SubSeq([i \in 1..17 |-> 9], 1, 17) \o <<7>>))

\* the letters of Decimal(text), compared without regard to case: a..z only
MayusculaAscii(ch) ==
    IF \E i \in 1..26 : Minusculas[i] = ch
    THEN Mayusculas[CHOOSE i \in 1..26 : Minusculas[i] = ch]
    ELSE ch

S_INF == <<"I", "N", "F">>

S_INFINITY == <<"I", "N", "F", "I", "N", "I", "T", "Y">>

S_NAN == <<"N", "A", "N">>

S_SNAN == <<"S", "N", "A", "N">>

DecNoValido == [ok |-> FALSE, d |-> DecZero]

\* Decimal(text), line 76: [sign] digits [. digits] [E [sign] digits], or
\* [sign] Inf | Infinity | NaN digits | sNaN digits, in any case, the
\* surrounding whitespace and every "_" ignored.  ok = FALSE stands for
\* InvalidOperation.
DecimalFromParts(neg, ent, frac, exp) ==
    IF /\ AllDigits(ent) /\ AllDigits(frac) /\ Len(ent) + Len(frac) >= 1 /\ exp.ok
       /\ ExponenteValido(EntMas(exp.n, 0 - Len(frac)),
                          NumDigitos(SinCerosDelante(CifrasDeTexto(ent \o frac))))
    THEN [ ok |-> TRUE,
           d  |-> DecDe(neg, SinCerosDelante(CifrasDeTexto(ent \o frac)),
                        ExpDeEnt(EntMas(exp.n, 0 - Len(frac)))) ]
    ELSE DecNoValido

\* p: the place of the first ".", or one past the end
DecimalFromSplit(neg, mant, p, exp) ==
    DecimalFromParts(neg, SubSeq(mant, 1, p - 1), SubSeq(mant, p + 1, Len(mant)), exp)

\* q: the place of the first "E", or one past the end
DecimalFromNumber(neg, body, q) ==
    DecimalFromSplit(neg, SubSeq(body, 1, q - 1), PosDe(SubSeq(body, 1, q - 1), "."),
        IF q > Len(body) THEN [ok |-> TRUE, n |-> EntDe(0)]
        ELSE ExponenteConSigno(SubSeq(body, q + 1, Len(body))))

\* body: the text after the sign, its letters in upper case
DecimalFromBody(neg, body) ==
    IF body \in {S_INF, S_INFINITY}
    THEN [ok |-> TRUE, d |-> DecInfinito(neg)]
    ELSE IF StartsWith(body, S_NAN) /\ AllDigits(SubSeq(body, 4, Len(body)))
    THEN [ok |-> TRUE, d |-> DecNaN("nan", neg,
                                SinCerosDelante(CifrasDeTexto(SubSeq(body, 4, Len(body)))))]
    ELSE IF StartsWith(body, S_SNAN) /\ AllDigits(SubSeq(body, 5, Len(body)))
    THEN [ok |-> TRUE, d |-> DecNaN("snan", neg,
                                SinCerosDelante(CifrasDeTexto(SubSeq(body, 5, Len(body)))))]
    ELSE DecimalFromNumber(neg, body, PosDe(body, "E"))

DecimalFromSigned(t) ==
    DecimalFromBody(t # <<>> /\ Head(t) = "-",
                    [ i \in 1..Len(IF t # <<>> /\ Head(t) \in {"-", "+"} THEN Tail(t) ELSE t) |->
                        MayusculaAscii((IF t # <<>> /\ Head(t) \in {"-", "+"}
                                        THEN Tail(t) ELSE t)[i]) ])

DecimalFromStr(text) == DecimalFromSigned(Replace(Strip(text), "_", <<>>))

\* str(value) of a JSON integer or string
JToStr(v) == IF v.t = "int" THEN IntToStr(v.n) ELSE v.s

\* views._parse_decimal, lines 75-78
ParseOrDefault(r, default) == IF r.ok THEN r.d ELSE default

\* views._parse_decimal, lines 68-74
ParseCleaned(cleaned, default) ==
    IF cleaned = <<>> THEN default
    ELSE ParseOrDefault(
             DecimalFromStr(IF Count(cleaned, ",") = 1 /\ Count(cleaned, ".") = 0
                            THEN Replace(cleaned, ",", <<".">>)
                            ELSE Replace(cleaned, ",", <<>>)),
             default)

\* views._parse_decimal(value, default)
_parse_decimal(value, default) ==
    IF value.t = "null" THEN default
    ELSE ParseCleaned(Replace(Strip(JToStr(value)), "$", <<>>), default)

RECURSIVE ZFill(_, _)
ZFill(s, n) == IF Len(s) >= n THEN s ELSE ZFill(<<"0">> \o s, n)

\* value.quantize(quantum, rounding=ROUND_HALF_UP) as a count of quanta, for a
\* magnitude mag * 10^(sh - places)
QuantizeHalfUp(mag, sh) ==
    IF sh.hi >= 0 THEN CifrasPorPow10(mag, ExpInt(sh))
    ELSE IF ~ ExpMayorQue(sh, (0 - Len(mag)) - 1) THEN <<>>
    ELSE IF mag[Len(mag) + ExpInt(sh) + 1] >= 5
    THEN CifrasSuma(SubSeq(mag, 1, Len(mag) + ExpInt(sh)), <<1>>)
    ELSE SubSeq(mag, 1, Len(mag) + ExpInt(sh))

RenderDigits(neg, dig, places) ==
    (IF neg THEN <<"-">> ELSE <<>>)
    \o SubSeq(dig, 1, Len(dig) - places)
    \o (IF places > 0 THEN <<".">> \o SubSeq(dig, Len(dig) - places + 1, Len(dig))
        ELSE <<>>)

\* quantize raises InvalidOperation when the coefficient would have more than
\* PRECISION digits at the quantum's exponent, before or after the rounding
CabeEnPrecision(mag, sh) ==
    \/ mag = <<>>
    \/ /\ ~ ExpMayorQue(ExpMas(sh, Len(mag)), PRECISION)
       /\ Len(QuantizeHalfUp(mag, sh)) <= PRECISION

\* decimal.InvalidOperation raised in place of a string
InvalidOperation == <<OperacionInvalida>>

\* quantize with ROUND_HALF_UP and render a number of magnitude
\* mag * 10^(sh - places)
DecimalToStr(neg, mag, sh, places) ==
    IF ~ CabeEnPrecision(mag, sh) THEN InvalidOperation
    ELSE RenderDigits(neg, ZFill(CifrasTexto(QuantizeHalfUp(mag, sh)), places + 1), places)

\* views._decimal_to_str(value, places) (value is a Decimal in every call the
\* model makes): quantize returns a quiet NaN, rendered with its sign and the
\* lowest PRECISION of its diagnostic digits, and raises InvalidOperation for
\* Infinity and for a signaling NaN; a value that was never returned leaves
\* its exception
_decimal_to_str(value, places) ==
    IF DecLanzada(value) THEN <<ExcepcionDe(value)>>
    ELSE IF value.clase = "nan"
    THEN (IF DecSigned(value) THEN <<"-">> ELSE <<>>) \o <<"N", "a", "N">>
         \o CifrasTexto(DecNaNFijado(value).c)
    ELSE IF ~ DecFinito(value) THEN InvalidOperation
    ELSE DecimalToStr(DecSigned(value), value.c, ExpMas(value.e, places), places)

(***************************************************************************)
(* liquidacion.py: slots and slot rules                                    *)
(***************************************************************************)
None == "None"

CASILLAS ==
    <<"SUBTOTAL", "IVA", "INC", "RETEFUENTE", "RETEICA", "RETEIVA", "TOTAL_NETO">>

Casillas == {CASILLAS[i] : i \in 1..Len(CASILLAS)}

RETENCIONES == {"RETEFUENTE", "RETEICA", "RETEIVA"}

CASILLA_FIELD_MAP ==
    [ SUBTOTAL   |-> "subtotal",
      IVA        |-> "iva",
      INC        |-> "inc",
      RETEFUENTE |-> "retefuente",
      RETEICA    |-> "reteica",
      RETEIVA    |-> "reteiva",
      TOTAL_NETO |-> "total_neto" ]

Campos == {CASILLA_FIELD_MAP[c] : c \in Casillas}

NATURALEZA_ERROR_MSG ==
    "La naturaleza de la cuenta seleccionada no coincide con la casilla esperada."

CUENTA_PROVEEDOR_MSG ==
    "La cuenta seleccionada no pertenece al proveedor de la factura."

CASILLA_ERROR_MSG ==
    "La cuenta seleccionada no corresponde a la casilla esperada."

CAMPO_OBLIGATORIO_MSG ==
    "El campo 'Cuenta contable' es obligatorio porque el importe es distinto de cero."

INC_EXCLUSIVA_MSG == "La cuenta 231053152007 es exclusiva de INC."

SIN_OPCIONES_MSG ==
    "No hay opciones disponibles para esta casilla; parametrice el proveedor."

SIN_OPCIONES_RETEFUENTE_MSG ==
    "El proveedor no tiene parametrizadas opciones para ReteFuente."

SIN_OPCIONES_RETENCION_MSG ==
    "El proveedor no tiene parametrizadas opciones para esta retencion."

P2310 == <<"2", "3", "1", "0">>

P2432 == <<"2", "4", "3", "2">>

P2408 == <<"2", "4", "0", "8">>

P2365 == <<"2", "3", "6", "5">>

P2368 == <<"2", "3", "6", "8">>

P2367 == <<"2", "3", "6", "7">>

P2335 == <<"2", "3", "3", "5">>

CUENTA_INC == <<"2", "3", "1", "0", "5", "3", "1", "5", "2", "0", "0", "7">>

S_NA == <<"N", "/", "A">>

S_na == <<"n", "a">>

S_NA2 == <<"N", "A">>

S_BSP == <<"B", "S", "P">>

S_bsp == <<"b", "s", "p">>

Sentinelas == <<S_NA, S_na, S_BSP, S_bsp>>

CASILLA_RULES ==
    [ SUBTOTAL   |-> [ prefijos   |-> <<P2310, P2432>> \o Sentinelas,
                       excluir    |-> {CUENTA_INC},
                       mensaje_sin_opciones |-> SIN_OPCIONES_MSG,
                       naturaleza |-> "D" ],
      IVA        |-> [ prefijos   |-> <<P2408>> \o Sentinelas,
                       excluir    |-> {},
                       mensaje_sin_opciones |-> SIN_OPCIONES_MSG,
                       naturaleza |-> "D" ],
      INC        |-> [ prefijos   |-> <<CUENTA_INC>> \o Sentinelas,
                       excluir    |-> {},
                       mensaje_sin_opciones |-> SIN_OPCIONES_MSG,
                       naturaleza |-> "D" ],
      RETEFUENTE |-> [ prefijos   |-> <<P2365>> \o Sentinelas,
                       excluir    |-> {},
                       mensaje_sin_opciones |-> SIN_OPCIONES_RETEFUENTE_MSG,
                       naturaleza |-> "C" ],
      RETEICA    |-> [ prefijos   |-> <<P2368>> \o Sentinelas,
                       excluir    |-> {},
                       mensaje_sin_opciones |-> SIN_OPCIONES_RETENCION_MSG,
                       naturaleza |-> "C" ],
      RETEIVA    |-> [ prefijos   |-> <<P2367>> \o Sentinelas,
                       excluir    |-> {},
                       mensaje_sin_opciones |-> SIN_OPCIONES_RETENCION_MSG,
                       naturaleza |-> "C" ],
      TOTAL_NETO |-> [ prefijos   |-> <<P2335>> \o Sentinelas,
                       excluir    |-> {},
                       mensaje_sin_opciones |-> SIN_OPCIONES_MSG,
                       naturaleza |-> "D" ] ]

es_cuenta_inc_exclusiva(codigo) == codigo = CUENTA_INC

\* ValidarConReglas without the check of the account exclusive of INC
ValidarConReglas_sin_exclusiva(reglas, casilla, codigo) ==
    IF codigo = <<>> THEN None
    ELSE IF casilla = "INC"
    THEN IF codigo = CUENTA_INC THEN None
         ELSE IF Upper(codigo) \in {S_NA, S_NA2, S_BSP, S_bsp} THEN None
         ELSE INC_EXCLUSIVA_MSG
    ELSE IF codigo \in reglas.excluir THEN CASILLA_ERROR_MSG
    ELSE IF /\ Len(reglas.prefijos) > 0
            /\ ~ \E i \in 1..Len(reglas.prefijos) :
                    StartsWith(codigo, reglas.prefijos[i])
    THEN CASILLA_ERROR_MSG
    ELSE None

\* ValidarConReglas without the check of the prefixes
ValidarConReglas_sin_prefijos(reglas, casilla, codigo) ==
    IF codigo = <<>> THEN None
    ELSE IF casilla = "INC"
    THEN IF codigo = CUENTA_INC THEN None
         ELSE IF Upper(codigo) \in {S_NA, S_NA2, S_BSP, S_bsp} THEN None
         ELSE INC_EXCLUSIVA_MSG
    ELSE IF es_cuenta_inc_exclusiva(codigo) /\ casilla # "INC"
    THEN INC_EXCLUSIVA_MSG
    ELSE IF codigo \in reglas.excluir THEN CASILLA_ERROR_MSG
    ELSE None

\* liquidacion.validar_prefijo_para_casilla: None or the rejection message
ValidarConReglas(reglas, casilla, codigo) ==
    IF codigo = <<>> THEN None
    ELSE IF casilla = "INC"
    THEN IF codigo = CUENTA_INC THEN None
         ELSE IF Upper(codigo) \in {S_NA, S_NA2, S_BSP, S_bsp} THEN None
         ELSE INC_EXCLUSIVA_MSG
    ELSE IF es_cuenta_inc_exclusiva(codigo) /\ casilla # "INC"
    THEN INC_EXCLUSIVA_MSG
    ELSE IF codigo \in reglas.excluir THEN CASILLA_ERROR_MSG
    ELSE IF /\ Len(reglas.prefijos) > 0
            /\ ~ \E i \in 1..Len(reglas.prefijos) :
                    StartsWith(codigo, reglas.prefijos[i])
    THEN CASILLA_ERROR_MSG
    ELSE None

validar_prefijo_para_casilla(casilla, codigo) ==
    ValidarConReglas(CASILLA_RULES[casilla], casilla, codigo)

\* an optional Decimal (a nullable DecimalField)
Algun(d) == [some |-> TRUE, d |-> d]

Ninguno == [some |-> FALSE, d |-> DecZero]

\* the pair returned; nothing is returned when the product raised
ParDeRetencion(porcentaje, valor) ==
    IF DecLanzada(valor)
    THEN [porcentaje |-> valor, valor |-> valor]
    ELSE [porcentaje |-> porcentaje, valor |-> valor]

\* liquidacion.calcular_retencion(base, catalogo) -> (porcentaje, valor)
RetencionCon(base, porcentaje, modo) ==
    ParDeRetencion(porcentaje,
                   IF modo = "PORMIL"
                   THEN DecDivPow10(DecMul(base, porcentaje), 3)
                   ELSE DecDivPow10(DecMul(base, porcentaje), 2))

calcular_retencion(base, catalogo) ==
    RetencionCon(base,
                 IF catalogo.porcentaje.some /\ ~ DecIsZero(catalogo.porcentaje.d)
                 THEN catalogo.porcentaje.d ELSE DecZero,
                 IF catalogo.modo_calculo # "" THEN catalogo.modo_calculo
                 ELSE "PORCENTAJE")

\* liquidacion.signo_por_naturaleza
signo_por_naturaleza(naturaleza) == IF naturaleza = "D" THEN DecInt(1) ELSE DecInt(-1)

(***************************************************************************)
(* Persistent tables (models.py) and the catalog index                     *)
(***************************************************************************)
VARIABLES
    proveedores,        \* table Proveedor: rows [id, empresa_id, nit, nombre]
    cuentas_proveedor,  \* table CuentaContableProveedor joined with CuentaContable
    peticion,           \* the request being served: [vista, filas] or SinPeticion
    errores,            \* findings returned by _validar_filas_liquidacion
    filas_resultado,    \* row results returned by _validar_filas_liquidacion
    respuesta,          \* the HTTP response: [status, tipo, valido, filas, csv, error]
    facturas_xml,       \* table FacturaXML: rows [empresa_id, cufe, proveedor_id, ...]
    facturas_xls,       \* table FacturaXLS: rows [id, empresa_id, cufe, activo]
    columnas_facturaxls, \* the columns the FacturaXLS table has in the database
    llamada,            \* a direct call of a function of liquidacion.py: [fn, args]
    retorno,            \* what the call returned: [hecho, valor]
    empresas,           \* table Empresa: rows [id, activo]
    permisos,           \* table PermisoEmpresa: rows [usuario, empresa_id]
    sesion,             \* the user's session: [autenticado, empresa_actual_id]
    ejecucion,          \* the process serving the request: its position and locals
    concurrente         \* a request another process serves at the same time:
                        \* [peticion, ejecucion, respuesta]

\* what persists between requests
tablas == <<proveedores, cuentas_proveedor, facturas_xml, facturas_xls, columnas_facturaxls>>

\* who may see what: the companies, the permissions and the session
acceso == <<empresas, permisos, sesion>>

\* the processes at work
curso == <<ejecucion, concurrente>>

vars == <<proveedores, cuentas_proveedor, facturas_xml, facturas_xls, columnas_facturaxls,
          peticion, errores, filas_resultado, respuesta, llamada, retorno,
          empresas, permisos, sesion, ejecucion, concurrente>>

\* models.CuentaContableProveedor (cuenta.codigo inlined)
Catalogo(id, proveedor_id, casilla, codigo, naturaleza, porcentaje, modo_calculo, activo) ==
    [ id |-> id, proveedor_id |-> proveedor_id, casilla |-> casilla,
      codigo |-> codigo, naturaleza |-> naturaleza, porcentaje |-> porcentaje,
      modo_calculo |-> modo_calculo, activo |-> activo ]

\* "no catalog entry" (python None in a catalogo position)
NingunCatalogo == Catalogo(0, 0, "", <<>>, "", Ninguno, "", FALSE)

Cod(prefijo, resto) == prefijo \o resto

R001000 == <<"0", "0", "1", "0", "0", "0">>

R002000 == <<"0", "0", "2", "0", "0", "0">>

R003000 == <<"0", "0", "3", "0", "0", "0">>

R999999 == <<"9", "9", "9", "9", "9", "9">>

\* Decimal literals of the fixture
D4 == DecInt(4)

D9_5 == DecNorm(95, -1)

D15 == DecInt(15)

D10 == DecInt(10)

\* The company of the session (Empresa.id) and another tenant
EmpresaActual == 1

OtraEmpresa == 2

ProveedoresIniciales ==
    { [id |-> 1, empresa_id |-> EmpresaActual, nit |-> "900123456",
       nombre |-> "Proveedor Uno"],
      [id |-> 2, empresa_id |-> EmpresaActual, nit |-> "900555111",
       nombre |-> "Proveedor Sincronizacion"],
      [id |-> 3, empresa_id |-> OtraEmpresa, nit |-> "900123456",
       nombre |-> "Proveedor Ajeno"] }

\* Provider 1 carries the parametrization of LiquidacionTestBase plus entries that
\* an administrator can create (the admin form does not check prefix or nature);
\* provider 2 is the provider of the tests after parametros[...].delete() for
\* IVA, INC, RETEFUENTE and TOTAL_NETO; provider 3 is of another company.
CatalogoInicial ==
    { Catalogo(1, 1, "SUBTOTAL", Cod(P2310, R001000), "D", Ninguno, "", TRUE),
      Catalogo(2, 1, "IVA", Cod(P2408, R001000), "D", Ninguno, "", TRUE),
      Catalogo(3, 1, "INC", CUENTA_INC, "D", Ninguno, "", TRUE),
      Catalogo(4, 1, "RETEFUENTE", Cod(P2365, R001000), "C", Algun(D4), "", TRUE),
      Catalogo(5, 1, "RETEICA", Cod(P2368, R001000), "C", Algun(D9_5), "PORCENTAJE", TRUE),
      Catalogo(6, 1, "RETEIVA", Cod(P2367, R001000), "C", Algun(D15), "", TRUE),
      Catalogo(7, 1, "TOTAL_NETO", Cod(P2335, R001000), "D", Ninguno, "", TRUE),
      Catalogo(8, 1, "SUBTOTAL", CUENTA_INC, "D", Ninguno, "", TRUE),
      Catalogo(9, 1, "IVA", Cod(P2408, R002000), "C", Ninguno, "", TRUE),
      Catalogo(10, 1, "RETEFUENTE", Cod(P2365, R002000), "C", Ninguno, "", TRUE),
      Catalogo(11, 1, "RETEICA", Cod(P2368, R002000), "C", Algun(D10), "PORMIL", TRUE),
      Catalogo(12, 1, "RETEIVA", Cod(P2310, R002000), "D", Algun(D15), "", TRUE),
      Catalogo(13, 1, "TOTAL_NETO", Cod(P2335, R002000), "D", Ninguno, "", FALSE),
      Catalogo(14, 1, "RETEFUENTE", Cod(P2365, R003000), "D", Algun(D4), "", TRUE),
      Catalogo(15, 2, "SUBTOTAL", Cod(P2310, R999999), "D", Ninguno, "", TRUE),
      Catalogo(16, 2, "RETEICA", Cod(P2368, R001000), "C", Algun(D9_5), "", TRUE),
      Catalogo(17, 3, "SUBTOTAL", Cod(P2432, R001000), "D", Ninguno, "", TRUE),
      Catalogo(18, 1, "INC", Cod(P2310, R003000), "D", Ninguno, "", TRUE),
      Catalogo(19, 1, "TOTAL_NETO", Cod(P2335, R003000), "C", Ninguno, "", TRUE),
      Catalogo(20, 2, "RETEIVA", Cod(P2367, R001000), "C", Algun(D15), "", TRUE),
      Catalogo(21, 2, "IVA", Cod(P2408, R003000), "D", Ninguno, "", FALSE) }

\* Collation used by order_by("cuenta__codigo")
Alfabeto == <<" ", "$", "+", ",", "-", ".", "/">> \o Digitos \o Mayusculas \o Minusculas

Ord(ch) == CHOOSE i \in 1..Len(Alfabeto) : Alfabeto[i] = ch

RECURSIVE StrLess(_, _)
StrLess(a, b) ==
    IF b = <<>> THEN FALSE
    ELSE IF a = <<>> THEN TRUE
    ELSE IF Head(a) = Head(b) THEN StrLess(Tail(a), Tail(b))
    ELSE Ord(Head(a)) < Ord(Head(b))

\* the entries of S as a list ordered by account code
MenorCodigo(S) ==
    CHOOSE x \in S : \A y \in S \ {x} : StrLess(x.codigo, y.codigo) \/ x.codigo = y.codigo

RECURSIVE OrdenarDesde(_, _)
RECURSIVE OrdenarResto(_, _, _)
OrdenarDesde(S, out) ==
    IF S = {} THEN out
    ELSE OrdenarResto(S, out, MenorCodigo(S))

OrdenarResto(S, out, m) == OrdenarDesde(S \ {m}, Append(out, m))

OrdenarPorCodigo(S) == OrdenarDesde(S, <<>>)

\* python truthiness of a JSON value
Truthy(v) == (v.t = "int" /\ v.n # 0) \/ (v.t = "str" /\ v.s # <<>>)

\* liquidacion.agrupar_catalogos_por_proveedor, lines 148-164
IndiceDe(provs, ids, cats) ==
    [ proveedores |-> provs,
      catalogos_por_clave |->
          [ k \in ids \X Casillas |->
              OrdenarPorCodigo({ c \in cats : c.proveedor_id = k[1] /\ c.casilla = k[2] }) ],
      catalogos_por_id |-> cats ]

\* IndiceDeIds that loads the inactive entries too
IndiceDeIds_con_inactivas(provs, ids) ==
    IndiceDe(provs, ids, { c \in cuentas_proveedor : c.proveedor_id \in ids })

IndiceDeIds(provs, ids) ==
    IndiceDe(provs, ids, { c \in cuentas_proveedor : c.proveedor_id \in ids /\ c.activo })

IndiceDeProveedores(provs) == IndiceDeIds(provs, { p.id : p \in provs })

\* liquidacion.agrupar_catalogos_por_proveedor(proveedor_ids, empresa_id=...)
agrupar_catalogos_por_proveedor(proveedor_ids, empresa_id) ==
    IndiceDeProveedores({ p \in proveedores : JInt(p.id) \in proveedor_ids
                                              /\ p.empresa_id = empresa_id })

(***************************************************************************)
(* views._validar_filas_liquidacion                                        *)
(***************************************************************************)
\* int(text) admits one "_" between two digits
GuionesEntreDigitos(t) ==
    \A i \in 1..Len(t) :
        t[i] = "_" => /\ 1 < i /\ i < Len(t)
                      /\ EsDigito(t[i - 1]) /\ EsDigito(t[i + 1])

\* int(text) for a stripped string: [sign] digits, "_" between digits
IntFromStr(t) ==
    IF GuionesEntreDigitos(t) THEN EnteroConSigno(Replace(t, "_", <<>>))
    ELSE [ok |-> FALSE, n |-> EntDe(0)]

\* int(value): ok = FALSE stands for TypeError / ValueError
IntFromJ(v) ==
    IF v.t = "int" THEN [ok |-> TRUE, n |-> EntDe(v.n)]
    ELSE IF v.t = "null" THEN [ok |-> FALSE, n |-> EntDe(0)]
    ELSE IntFromStr(StripDe(v.s, BlancosDeC))

BuscarEntero(cats, r) ==
    IF r.ok /\ \E c \in cats : EntDe(c.id) = r.n
    THEN CHOOSE c \in cats : EntDe(c.id) = r.n
    ELSE NingunCatalogo

\* catalogos_por_id.get(int(cuenta_id)), None on TypeError / ValueError
BuscarPorId(idx, cuenta_id) == BuscarEntero(idx.catalogos_por_id, IntFromJ(cuenta_id))

\* catalogos_por_clave.get((proveedor_id, casilla), [])
Opciones(idx, proveedor_id, casilla) ==
    IF proveedor_id.t = "int" /\ <<proveedor_id.n, casilla>> \in DOMAIN idx.catalogos_por_clave
    THEN idx.catalogos_por_clave[<<proveedor_id.n, casilla>>]
    ELSE <<>>

Hallazgo(indice, fila, campo, mensaje) ==
    [ fila |-> JInt(indice), factura_id |-> fila.factura_id,
      campo |-> campo, mensaje |-> mensaje ]

\* ErroresImporte that asks for the account whatever the amount
ErroresImporte_sin_mirar_monto(casilla, monto, opciones, cuenta_id) ==
    IF opciones = <<>> THEN <<CASILLA_RULES[casilla].mensaje_sin_opciones>>
    ELSE IF EsVacio(cuenta_id) THEN <<CAMPO_OBLIGATORIO_MSG>>
    ELSE <<>>

\* ErroresImporte that lets an amount go without account
ErroresImporte_sin_obligatorio(casilla, monto, opciones, cuenta_id) ==
    IF ~ DecIsZero(monto) /\ opciones = <<>>
    THEN <<CASILLA_RULES[casilla].mensaje_sin_opciones>>
    ELSE <<>>

\* ErroresImporte that says nothing when the provider has no options
ErroresImporte_sin_opciones_calla(casilla, monto, opciones, cuenta_id) ==
    IF ~ DecIsZero(monto) /\ opciones # <<>> /\ EsVacio(cuenta_id)
    THEN <<CAMPO_OBLIGATORIO_MSG>>
    ELSE <<>>

\* lines 496-516: an amount with nothing to post it to
ErroresImporte(casilla, monto, opciones, cuenta_id) ==
    IF ~ DecIsZero(monto)
    THEN IF opciones = <<>> THEN <<CASILLA_RULES[casilla].mensaje_sin_opciones>>
         ELSE IF EsVacio(cuenta_id) THEN <<CAMPO_OBLIGATORIO_MSG>>
         ELSE <<>>
    ELSE <<>>

\* ComprobarNaturaleza that compares nothing
ComprobarNaturaleza_omitida(casilla, catalogo, valido, errs) ==
    [ catalogo |-> catalogo, valido |-> valido, errs |-> errs ]

\* ComprobarNaturaleza that looks at the nature of an entry already refused
ComprobarNaturaleza_de_toda_cuenta(casilla, catalogo, valido, errs) ==
    IF /\ catalogo # NingunCatalogo
       /\ catalogo.naturaleza # CASILLA_RULES[casilla].naturaleza
    THEN [ catalogo |-> catalogo, valido |-> FALSE,
           errs |-> Append(errs, NATURALEZA_ERROR_MSG) ]
    ELSE [ catalogo |-> catalogo, valido |-> valido, errs |-> errs ]

\* lines 567-581: the nature check that follows the resolution
ComprobarNaturaleza(casilla, catalogo, valido, errs) ==
    IF /\ valido
       /\ catalogo # NingunCatalogo
       /\ catalogo.naturaleza # CASILLA_RULES[casilla].naturaleza
    THEN [ catalogo |-> catalogo, valido |-> FALSE,
           errs |-> Append(errs, NATURALEZA_ERROR_MSG) ]
    ELSE [ catalogo |-> catalogo, valido |-> valido, errs |-> errs ]

\* ComprobarCatalogo that takes an entry of any provider
ComprobarCatalogo_sin_proveedor(casilla, catalogo, proveedor_id) ==
    IF catalogo = NingunCatalogo
    THEN ComprobarNaturaleza(casilla, catalogo, FALSE, <<CUENTA_PROVEEDOR_MSG>>)
    ELSE IF catalogo.casilla # casilla
    THEN ComprobarNaturaleza(casilla, catalogo, FALSE, <<CASILLA_ERROR_MSG>>)
    ELSE IF validar_prefijo_para_casilla(casilla, catalogo.codigo) # None
    THEN ComprobarNaturaleza(casilla, catalogo, FALSE,
             <<validar_prefijo_para_casilla(casilla, catalogo.codigo)>>)
    ELSE ComprobarNaturaleza(casilla, catalogo, TRUE, <<>>)

\* lines 523-566: the chosen account must exist, be of the row's provider, carry
\* this slot and have an account code of the slot's family
ComprobarCatalogo(casilla, catalogo, proveedor_id) ==
    IF catalogo = NingunCatalogo
    THEN ComprobarNaturaleza(casilla, catalogo, FALSE, <<CUENTA_PROVEEDOR_MSG>>)
    ELSE IF proveedor_id.t = "null" \/ JInt(catalogo.proveedor_id) # proveedor_id
    THEN ComprobarNaturaleza(casilla, catalogo, FALSE, <<CUENTA_PROVEEDOR_MSG>>)
    ELSE IF catalogo.casilla # casilla
    THEN ComprobarNaturaleza(casilla, catalogo, FALSE, <<CASILLA_ERROR_MSG>>)
    ELSE IF validar_prefijo_para_casilla(casilla, catalogo.codigo) # None
    THEN ComprobarNaturaleza(casilla, catalogo, FALSE,
             <<validar_prefijo_para_casilla(casilla, catalogo.codigo)>>)
    ELSE ComprobarNaturaleza(casilla, catalogo, TRUE, <<>>)

\* lines 518-581: resolution of the chosen account; [catalogo, valido, errs]
ResolverCuenta(casilla, cuenta_id, proveedor_id, idx) ==
    IF EsVacio(cuenta_id)
    THEN [catalogo |-> NingunCatalogo, valido |-> TRUE, errs |-> <<>>]
    ELSE ComprobarCatalogo(casilla, BuscarPorId(idx, cuenta_id), proveedor_id)

\* subtotal + iva + inc - retefuente_val - reteica_val - reteiva_val
TotalCalculado(acc) ==
    DecSub(DecSub(DecSub(DecAdd(DecAdd(acc.subtotal, acc.iva), acc.inc),
                         acc.retefuente_val), acc.reteica_val), acc.reteiva_val)

\* lines 618-623 and 629-634
Retener(acc, casilla, valor) ==
    IF casilla = "RETEFUENTE" THEN [acc EXCEPT !.retefuente_val = valor]
    ELSE IF casilla = "RETEICA" THEN [acc EXCEPT !.reteica_val = valor]
    ELSE IF casilla = "RETEIVA" THEN [acc EXCEPT !.reteiva_val = valor]
    ELSE acc

\* CerrarCasilla that leaves in TOTAL_NETO the amount the request carried
CerrarCasilla_importe_enviado(casilla, cuenta_id, info, errs, acc, total_calculado) ==
    IF casilla = "TOTAL_NETO"
    THEN [ info |-> info,
           errs |-> IF ~ DecIsZero(total_calculado) /\ EsVacio(cuenta_id)
                    THEN Append(errs, CAMPO_OBLIGATORIO_MSG) ELSE errs,
           acc  |-> acc ]
    ELSE [info |-> info, errs |-> errs, acc |-> acc]

\* lines 638-650: the net total replaces whatever TOTAL_NETO carried
CerrarCasilla(casilla, cuenta_id, info, errs, acc, total_calculado) ==
    IF casilla = "TOTAL_NETO"
    THEN [ info |-> [info EXCEPT !.valor = Algun(total_calculado),
                                 !.monto = total_calculado],
           errs |-> IF ~ DecIsZero(total_calculado) /\ EsVacio(cuenta_id)
                    THEN Append(errs, CAMPO_OBLIGATORIO_MSG) ELSE errs,
           acc  |-> acc ]
    ELSE [info |-> info, errs |-> errs, acc |-> acc]

\* ValorarCasilla that keeps the amount and the percentage of the request
ValorarCasilla_sin_calcular(casilla, cuenta_id, monto, porcentaje_input, info, catalogo, errs, acc, calc) ==
    IF casilla \in RETENCIONES
    THEN CerrarCasilla(casilla, cuenta_id,
             [info EXCEPT !.porcentaje = porcentaje_input, !.valor = Algun(monto)],
             errs, Retener(acc, casilla, monto), TotalCalculado(acc))
    ELSE CerrarCasilla(casilla, cuenta_id, [info EXCEPT !.valor = Algun(monto)],
             errs, acc, TotalCalculado(acc))

\* ValorarCasilla that gives an unresolved withholding slot no value
ValorarCasilla_sin_respaldo(casilla, cuenta_id, monto, porcentaje_input, info, catalogo, errs, acc, calc) ==
    IF casilla \in RETENCIONES /\ catalogo # NingunCatalogo
    THEN IF ~ catalogo.porcentaje.some
         THEN CerrarCasilla(casilla, cuenta_id, info,
                  Append(errs, CASILLA_RULES[casilla].mensaje_sin_opciones),
                  acc, TotalCalculado(acc))
         ELSE CerrarCasilla(casilla, cuenta_id,
                  [info EXCEPT !.porcentaje = Algun(calc.porcentaje),
                               !.valor = Algun(calc.valor),
                               !.monto = calc.valor],
                  errs, Retener(acc, casilla, calc.valor), TotalCalculado(acc))
    ELSE IF casilla \in RETENCIONES
    THEN CerrarCasilla(casilla, cuenta_id,
             [info EXCEPT !.porcentaje = Algun(DecZero), !.valor = Algun(DecZero)],
             errs, acc, TotalCalculado(acc))
    ELSE CerrarCasilla(casilla, cuenta_id, [info EXCEPT !.valor = Algun(monto)],
             errs, acc, TotalCalculado(acc))

\* lines 595-636: value and percentage of the slot
ValorarCasilla(casilla, cuenta_id, monto, porcentaje_input, info, catalogo, errs, acc, calc) ==
    IF casilla \in RETENCIONES /\ catalogo # NingunCatalogo
    THEN IF ~ catalogo.porcentaje.some
         THEN CerrarCasilla(casilla, cuenta_id, info,
                  Append(errs, CASILLA_RULES[casilla].mensaje_sin_opciones),
                  acc, TotalCalculado(acc))
         ELSE CerrarCasilla(casilla, cuenta_id,
                  [info EXCEPT !.porcentaje = Algun(calc.porcentaje),
                               !.valor = Algun(calc.valor),
                               !.monto = calc.valor],
                  errs, Retener(acc, casilla, calc.valor), TotalCalculado(acc))
    ELSE IF casilla \in RETENCIONES
    THEN CerrarCasilla(casilla, cuenta_id,
             [info EXCEPT !.porcentaje = porcentaje_input, !.valor = Algun(monto)],
             errs, Retener(acc, casilla, monto), TotalCalculado(acc))
    ELSE CerrarCasilla(casilla, cuenta_id, [info EXCEPT !.valor = Algun(monto)],
             errs, acc, TotalCalculado(acc))

\* lines 583-593: casilla_info; catalogo is the entry kept (catalogo if
\* catalogo_valido else None)
InfoCasilla(casilla, cuenta_id, monto, porcentaje_input, catalogo, errs, acc) ==
    ValorarCasilla(casilla, cuenta_id, monto, porcentaje_input,
        [ monto      |-> monto,
          catalogo   |-> catalogo,
          porcentaje |-> Ninguno,
          valor      |-> Ninguno,
          naturaleza |-> IF catalogo # NingunCatalogo THEN catalogo.naturaleza
                         ELSE CASILLA_RULES[casilla].naturaleza ],
        catalogo, errs, acc, calcular_retencion(acc.subtotal, catalogo))

ValidarResuelta(casilla, cuenta_id, monto, porcentaje_input, e1, res, acc) ==
    InfoCasilla(casilla, cuenta_id, monto, porcentaje_input,
                IF res.valido THEN res.catalogo ELSE NingunCatalogo,
                e1 \o res.errs, acc)

ValidarMonto(fila, casilla, campo, idx, acc, monto) ==
    ValidarResuelta(casilla, fila.cuentas[campo], monto,
        IF casilla \in RETENCIONES
        THEN Algun(_parse_decimal(fila.porcentajes[campo], DecZero))
        ELSE Ninguno,
        ErroresImporte(casilla, monto, Opciones(idx, fila.proveedor_id, casilla),
                       fila.cuentas[campo]),
        ResolverCuenta(casilla, fila.cuentas[campo], fila.proveedor_id, idx),
        acc)

\* One iteration of "for casilla in CASILLAS" (lines 481-652).
\* acc = [subtotal, iva, inc, retefuente_val, reteica_val, reteiva_val];
\* result: [info, errs, acc], errs being the messages in the order appended.
ValidarCasilla(fila, casilla, idx, acc) ==
    ValidarMonto(fila, casilla, CASILLA_FIELD_MAP[casilla], idx, acc,
                 _parse_decimal(fila.importes[CASILLA_FIELD_MAP[casilla]], DecZero))

\* Acumular that drops the outcome of a slot that had findings
Acumular_sin_casilla_con_hallazgo(st, indice, fila, casilla, r) ==
    [ casillas |-> IF r.errs = <<>> THEN [st.casillas EXCEPT ![casilla] = r.info]
                   ELSE st.casillas,
      errs     |-> st.errs \o [ j \in 1..Len(r.errs) |->
                                  Hallazgo(indice, fila, CASILLA_FIELD_MAP[casilla], r.errs[j]) ],
      acc      |-> r.acc ]

\* lines 652 and the errores.append calls: st = [casillas, errs, acc]
Acumular(st, indice, fila, casilla, r) ==
    [ casillas |-> [st.casillas EXCEPT ![casilla] = r.info],
      errs     |-> st.errs \o [ j \in 1..Len(r.errs) |->
                                  Hallazgo(indice, fila, CASILLA_FIELD_MAP[casilla], r.errs[j]) ],
      acc      |-> r.acc ]

\* the loop over CASILLAS[k..7]
RECURSIVE ValidarCasillas(_, _, _, _, _)
ValidarCasillas(fila, indice, idx, k, st) ==
    IF k > Len(CASILLAS) THEN st
    ELSE ValidarCasillas(fila, indice, idx, k + 1,
             Acumular(st, indice, fila, CASILLAS[k],
                      ValidarCasilla(fila, CASILLAS[k], idx, st.acc)))

InfoVacia ==
    [ monto |-> DecZero, catalogo |-> NingunCatalogo, porcentaje |-> Ninguno,
      valor |-> Ninguno, naturaleza |-> "" ]

\* lines 471-479
EstadoInicial(fila) ==
    [ casillas |-> [c \in Casillas |-> InfoVacia],
      errs     |-> <<>>,
      acc      |-> [ subtotal |-> _parse_decimal(fila.importes["subtotal"], DecZero),
                     iva      |-> _parse_decimal(fila.importes["iva"], DecZero),
                     inc      |-> _parse_decimal(fila.importes["inc"], DecZero),
                     retefuente_val |-> DecZero,
                     reteica_val    |-> DecZero,
                     reteiva_val    |-> DecZero ] ]

\* "monto != Decimal("0")" (line 496) raises InvalidOperation when the amount
\* of the slot is a signaling NaN
MontoLanza(fila, casilla) ==
    _parse_decimal(fila.importes[CASILLA_FIELD_MAP[casilla]], DecZero).clase = "snan"

\* The exception that ends the validation of a row, None when nothing raised:
\* the first one in the order of the code, slot by slot from CASILLAS[k].  In
\* each slot the comparison of the amount comes first (line 496), then the
\* product and the quotient of calcular_retencion (line 611), whose exception
\* stays in the accumulator in place of the value, and in TOTAL_NETO the sum
\* of the net total (line 638): InvalidOperation on a signaling NaN, on
\* Infinity * 0 or on Infinity - Infinity, Overflow on a result beyond Emax.
RECURSIVE ExcepcionDeFila(_, _, _)
ExcepcionDeFila(fila, acc, k) ==
    IF k > Len(CASILLAS) THEN None
    ELSE IF MontoLanza(fila, CASILLAS[k]) THEN OperacionInvalida
    ELSE IF CASILLAS[k] = "RETEFUENTE" /\ DecLanzada(acc.retefuente_val)
    THEN ExcepcionDe(acc.retefuente_val)
    ELSE IF CASILLAS[k] = "RETEICA" /\ DecLanzada(acc.reteica_val)
    THEN ExcepcionDe(acc.reteica_val)
    ELSE IF CASILLAS[k] = "RETEIVA" /\ DecLanzada(acc.reteiva_val)
    THEN ExcepcionDe(acc.reteiva_val)
    ELSE IF CASILLAS[k] = "TOTAL_NETO" /\ DecLanzada(TotalCalculado(acc))
    THEN ExcepcionDe(TotalCalculado(acc))
    ELSE ExcepcionDeFila(fila, acc, k + 1)

\* lines 654-669
FilaResultado(fila, indice, st) ==
    [ errs |-> st.errs,
      excepcion |-> ExcepcionDeFila(fila, st.acc, 1),
      resultado |->
        [ indice       |-> indice,
          factura_id   |-> fila.factura_id,
          proveedor_id |-> fila.proveedor_id,
          original     |-> fila,
          casillas     |-> st.casillas,
          subtotal     |-> st.acc.subtotal,
          iva          |-> st.acc.iva,
          inc          |-> st.acc.inc,
          retefuente   |-> st.acc.retefuente_val,
          reteica      |-> st.acc.reteica_val,
          reteiva      |-> st.acc.reteiva_val,
          total_neto   |-> TotalCalculado(st.acc) ] ]

\* One iteration of "for indice, fila in enumerate(filas)" (lines 465-669)
ValidarFila(fila, indice, idx) ==
    FilaResultado(fila, indice, ValidarCasillas(fila, indice, idx, 1, EstadoInicial(fila)))

\* fila.get(...) on a row that is no JSON object (line 452) raises
\* AttributeError before any row is validated
AttributeError == "AttributeError"

\* the call that raised returns nothing
Lanzada(excepcion) ==
    [errores |-> <<>>, filas_resultado |-> <<>>, excepcion |-> excepcion]

AgregarFila(out, r) ==
    IF r.excepcion # None THEN Lanzada(r.excepcion)
    ELSE [ errores |-> out.errores \o r.errs,
           filas_resultado |-> Append(out.filas_resultado, r.resultado),
           excepcion |-> None ]

\* the loop over filas[i..]; importes.get(...) on an importes that is no JSON
\* object (line 471) raises AttributeError when the loop reaches the row
RECURSIVE ValidarDesde(_, _, _, _)
ValidarDesde(filas, i, idx, out) ==
    IF i > Len(filas) \/ out.excepcion # None THEN out
    ELSE IF filas[i].forma # "objeto"
    THEN Lanzada(AttributeError)
    ELSE ValidarDesde(filas, i + 1, idx, AgregarFila(out, ValidarFila(filas[i], i - 1, idx)))

FORMATO_INVALIDO_MSG == "Formato invalido."

\* _validar_filas_liquidacion that loads the catalog of the first row's
\* provider only
_validar_filas_liquidacion_indice_de_la_primera(filas, empresa_id) ==
    IF ~ filas.lista
    THEN [ errores |-> << [ fila |-> JNull, factura_id |-> JNull,
                            campo |-> None, mensaje |-> FORMATO_INVALIDO_MSG ] >>,
           filas_resultado |-> <<>>,
           excepcion |-> None ]
    ELSE IF \E i \in 1..Len(filas.items) : filas.items[i].forma = "no_objeto"
    THEN Lanzada(AttributeError)
    ELSE ValidarDesde(filas.items, 1,
             agrupar_catalogos_por_proveedor(
                 { filas.items[i].proveedor_id : i \in
                     { j \in 1..Len(filas.items) :
                         j = 1 /\ Truthy(filas.items[j].proveedor_id) } },
                 empresa_id),
             [errores |-> <<>>, filas_resultado |-> <<>>, excepcion |-> None])

\* views._validar_filas_liquidacion(filas, empresa) -> (errores, filas_resultado).
\* filas = [lista, items]: lista = FALSE is a JSON value that is not a list.
_validar_filas_liquidacion(filas, empresa_id) ==
    IF ~ filas.lista
    THEN [ errores |-> << [ fila |-> JNull, factura_id |-> JNull,
                            campo |-> None, mensaje |-> FORMATO_INVALIDO_MSG ] >>,
           filas_resultado |-> <<>>,
           excepcion |-> None ]
    ELSE IF \E i \in 1..Len(filas.items) : filas.items[i].forma = "no_objeto"
    THEN Lanzada(AttributeError)
    ELSE ValidarDesde(filas.items, 1,
             agrupar_catalogos_por_proveedor(
                 { filas.items[i].proveedor_id : i \in
                     { j \in 1..Len(filas.items) : Truthy(filas.items[j].proveedor_id) } },
                 empresa_id),
             [errores |-> <<>>, filas_resultado |-> <<>>, excepcion |-> None])

\* python: a or b for Decimals (None and zero are falsy)
DecOr(opt, d) == IF opt.some /\ ~ DecIsZero(opt.d) THEN opt.d ELSE d

CamposRetencion == {CASILLA_FIELD_MAP[c] : c \in RETENCIONES}

CasillaDeCampo(campo) == CHOOSE c \in Casillas : CASILLA_FIELD_MAP[c] = campo

\* views._serializar_fila_validada
_serializar_fila_validada(fila) ==
    [ indice       |-> fila.indice,
      factura_id   |-> fila.factura_id,
      proveedor_id |-> fila.proveedor_id,
      importes     |-> [ campo \in Campos |->
                           _decimal_to_str(
                               DecOr(fila.casillas[CasillaDeCampo(campo)].valor,
                                     fila.casillas[CasillaDeCampo(campo)].monto), 2) ],
      cuentas      |-> [ campo \in Campos |->
                           IF fila.casillas[CasillaDeCampo(campo)].catalogo # NingunCatalogo
                           THEN JInt(fila.casillas[CasillaDeCampo(campo)].catalogo.id)
                           ELSE JNull ],
      porcentajes  |-> [ campo \in CamposRetencion |->
                           _decimal_to_str(
                               DecOr(fila.casillas[CasillaDeCampo(campo)].porcentaje,
                                     DecZero), 4) ],
      total_neto_calculado |-> _decimal_to_str(fila.total_neto, 2) ]

\* the exception left in place of a text, None for a text
ExcepcionDeTexto(texto) ==
    IF texto \in {<<OperacionInvalida>>, <<Desbordamiento>>} THEN texto[1] ELSE None

\* the first exception of a sequence of outcomes, None when there is none
RECURSIVE PrimeraExcepcion(_)
PrimeraExcepcion(excepciones) ==
    IF excepciones = <<>> THEN None
    ELSE IF Head(excepciones) # None THEN Head(excepciones)
    ELSE PrimeraExcepcion(Tail(excepciones))

\* the exception _decimal_to_str raised while the row was serialised (lines
\* 684-694), None when there was none: slot by slot the amount and then the
\* percentage, and the net total last
SerializadaLanza(datos) ==
    PrimeraExcepcion(
        [ k \in 1..(2 * Len(CASILLAS) + 1) |->
            IF k = 2 * Len(CASILLAS) + 1
            THEN ExcepcionDeTexto(datos.total_neto_calculado)
            ELSE IF k % 2 = 1
            THEN ExcepcionDeTexto(datos.importes[CASILLA_FIELD_MAP[CASILLAS[(k + 1) \div 2]]])
            ELSE IF CASILLAS[k \div 2] \in RETENCIONES
            THEN ExcepcionDeTexto(datos.porcentajes[CASILLA_FIELD_MAP[CASILLAS[k \div 2]]])
            ELSE None ])

(***************************************************************************)
(* Requests                                                                *)
(***************************************************************************)
\* Largest number of rows in one request
MaxFilas == 2

\* "ent.ff" with a fraction of `places` digits
NumStr(ent, frac, places) == NatToStr(ent) \o <<".">> \o ZFill(NatToStr(frac), places)

Importe(ent, frac) == JStr(NumStr(ent, frac, 2))

Porcentaje(ent, frac) == JStr(NumStr(ent, frac, 4))

\* the descriptive keys of a row; "" for a key the row does not carry
SinDocumento ==
    [ tipo_documento |-> "", cufe |-> "", nit |-> "", proveedor |-> "",
      fecha |-> "", descripcion |-> "", prefijo_folio |-> "" ]

DocumentoDePrueba ==
    [ tipo_documento |-> "Factura electronica", cufe |-> "CUFE-LIQ-1",
      nit |-> "900123456", proveedor |-> "Proveedor Uno",
      fecha |-> "2024-01-12", descripcion |-> "Servicios",
      prefijo_folio |-> "PRF-001" ]

\* forma: "objeto" for a JSON object; "no_objeto" for a list element that is
\* no object; "importes_no_objeto" for an object whose importes is a list
Fila(factura_id, proveedor_id, importes, cuentas, porcentajes) ==
    [ forma |-> "objeto", documento |-> SinDocumento,
      factura_id |-> factura_id, proveedor_id |-> proveedor_id,
      importes |-> importes, cuentas |-> cuentas, porcentajes |-> porcentajes ]

PorcentajesBase ==
    [ retefuente |-> Porcentaje(4, 0), reteica |-> Porcentaje(9, 5000),
      reteiva |-> Porcentaje(15, 0) ]

\* tests.LiquidacionTestBase.build_fila_payload
FilaSinDocumento ==
    Fila(JInt(1), JInt(1),
         [ subtotal |-> Importe(100, 0), iva |-> Importe(19, 0), inc |-> Importe(0, 0),
           retefuente |-> Importe(4, 0), reteica |-> Importe(9, 50),
           reteiva |-> Importe(15, 0), total_neto |-> Importe(90, 50) ],
         [ subtotal |-> JInt(1), iva |-> JInt(2), inc |-> JInt(3),
           retefuente |-> JInt(4), reteica |-> JInt(5), reteiva |-> JInt(6),
           total_neto |-> JInt(7) ],
         PorcentajesBase)

FilaCompleta == [FilaSinDocumento EXCEPT !.documento = DocumentoDePrueba]

\* the same invoice with withholdings typed by hand: no account chosen for
\* RETEICA and RETEIVA, no percentages sent
FilaManual ==
    Fila(JInt(2), JInt(1),
         [ subtotal |-> Importe(100, 0), iva |-> Importe(19, 0), inc |-> Importe(0, 0),
           retefuente |-> Importe(4, 0), reteica |-> Importe(0, 0),
           reteiva |-> Importe(0, 0), total_neto |-> Importe(0, 0) ],
         [ subtotal |-> JInt(1), iva |-> JInt(2), inc |-> JNull,
           retefuente |-> JInt(4), reteica |-> JNull, reteiva |-> JNull,
           total_neto |-> JInt(7) ],
         [ retefuente |-> JNull, reteica |-> JNull, reteiva |-> JNull ])

\* build_fila_payload for provider 2, which has no IVA, INC, RETEFUENTE or
\* TOTAL_NETO options: those accounts are left empty, as the tests
\* test_validacion_sin_parametrizacion_* do
FilaProveedor2 ==
    Fila(JInt(3), JInt(2),
         [ subtotal |-> Importe(100, 0), iva |-> Importe(19, 0), inc |-> Importe(0, 0),
           retefuente |-> Importe(4, 0), reteica |-> Importe(9, 50),
           reteiva |-> Importe(15, 0), total_neto |-> Importe(90, 50) ],
         [ subtotal |-> JInt(15), iva |-> JNull, inc |-> JNull,
           retefuente |-> JNull, reteica |-> JInt(16), reteiva |-> JInt(20),
           total_neto |-> JNull ],
         PorcentajesBase)

\* a row without provider and without amounts
FilaSinProveedor ==
    Fila(JNull, JNull,
         [ campo \in Campos |-> JNull ],
         [ campo \in Campos |-> JNull ],
         [ campo \in CamposRetencion |-> JNull ])

\* {"filas": [1]}: an element that is no object
FilaNoObjeto == [FilaSinProveedor EXCEPT !.forma = "no_objeto"]

\* {"filas": [{..., "importes": [1]}]}: importes that is no object
FilaImportesNoObjeto == [FilaCompleta EXCEPT !.forma = "importes_no_objeto"]

FilasBase == {FilaCompleta, FilaManual, FilaProveedor2, FilaSinProveedor}

\* the complete row with the SUBTOTAL account of provider 2 chosen
FilaCruzada == [FilaCompleta EXCEPT !.cuentas["subtotal"] = JInt(15)]

\* the rows of the requests that carry several rows
FilasEnLista ==
    { FilaCompleta, FilaManual, FilaProveedor2, FilaSinProveedor, FilaCruzada,
      FilaNoObjeto, FilaImportesNoObjeto }

ImportesCrudos ==
    { JNull, Importe(0, 0), Importe(50, 0), JStr(<<"a", "b", "c">>),
      JStr(<<"-", "2", "0", ",", "5">>), JInt(7),
      JStr(<<"$", " ", "1", ",", "2", "0", "0", ".", "5", "0">>) }

CuentasCrudas ==
    { JNull, JStr(<<>>), JStr(S_NA), JStr(<<"7">>), JInt(999) }
        \cup { JInt(c.id) : c \in CatalogoInicial }

PorcentajesCrudos ==
    { JNull, Porcentaje(2, 5000), JStr(<<"1", "e", "1">>), JStr(<<"N", "a", "N">>),
      JStr(<<"s", "N", "a", "N">>) }

\* amounts written as Decimal(text) reads them and a person hardly types them:
\* an exponent, whitespace that is no space, a "_" between digits, the texts
\* of the values that are no numbers, a number at the edge of Emax and one
\* below Etiny, a no-break space, digits of another script and an exponent
\* beyond what Decimal(text) admits
ImportesEspeciales ==
    { JStr(<<"1", "e", "2">>), JStr(<<"\t", "1", "2">>),
      JStr(<<"1", "_", "0", "0", "0">>), JStr(<<"1", ".", "5", "E", "-", "1">>),
      JStr(<<"N", "a", "N">>), JStr(<<"-", "n", "a", "n">>),
      JStr(<<"s", "N", "a", "N">>), JStr(<<"I", "n", "f", "i", "n", "i", "t", "y">>),
      JStr(<<"-", "i", "n", "f">>), JStr(<<"9", "e", "9", "9", "9", "9", "9", "9">>),
      JStr(<<"1", "e", "-", "1", "2", "0", "0", "0", "0", "0">>),
      JStr(<<" ", "1", "2">>), JStr(<<"U+0661", "U+0662">>),
      JStr(<<"1", "e", "9", "9", "9", "9", "9", "9", "9", "9", "9", "9", "9", "9",
             "9", "9", "9", "9", "9", "9", "9", "9">>),
      JStr(<<"9", "8", "7", "6", "5", "4", "3", "2", "1", "0", "9", "8", "7", "6",
             ".", "5", "4", "5">>),
      JStr(<<"1", "e", "2", "8">>) }

\* account ids written as int(text) reads them
CuentasDeTexto ==
    { JStr(<<"9", "9", "9", "9", "9", "9", "9", "9", "9", "9", "9">>),
      JStr(<<"1", "_", "0">>), JStr(<<"\t", "7">>), JStr(<<"7", "\n">>),
      JStr(<<"_", "7">>), JStr(<<"+", "4">>), JStr(<<" ", "7">>),
      JStr(<<"U+0667">>), JStr(<<"", "7">>) }

ProveedoresCrudos == { JNull, JInt(1), JInt(2), JInt(3), JInt(999) }

\* a base row with one slot typed differently, or sent for another provider
FilasVariadas ==
    { [[f EXCEPT !.importes[CASILLA_FIELD_MAP[c]] = m]
          EXCEPT !.cuentas[CASILLA_FIELD_MAP[c]] = q] :
        f \in FilasBase, c \in Casillas, m \in ImportesCrudos, q \in CuentasCrudas }
    \cup
    { [f EXCEPT !.importes[campo] = m] :
        f \in FilasBase, campo \in Campos, m \in ImportesEspeciales }
    \cup
    { [f EXCEPT !.cuentas[campo] = q] :
        f \in FilasBase, campo \in Campos, q \in CuentasDeTexto }
    \cup
    { [f EXCEPT !.porcentajes[campo] = pc] :
        f \in FilasBase, campo \in CamposRetencion, pc \in PorcentajesCrudos }
    \cup
    { [f EXCEPT !.proveedor_id = pid] : f \in FilasBase, pid \in ProveedoresCrudos }

RECURSIVE SeqsHasta(_, _)
SeqsHasta(S, n) ==
    IF n <= 0 THEN {<<>>}
    ELSE SeqsHasta(S, n - 1) \cup { Append(q, x) : q \in SeqsHasta(S, n - 1), x \in S }

\* the lists of rows a request can carry: one row of any kind, or up to
\* MaxFilas rows of FilasEnLista
ListasDeFilas ==
    { <<f>> : f \in FilasVariadas } \cup SeqsHasta(FilasEnLista, MaxFilas)

Peticiones ==
    { [lista |-> TRUE, items |-> fs] : fs \in ListasDeFilas }
    \cup { [lista |-> FALSE, items |-> <<>>] }

\* the payloads sent to liquidacion_exportar: the lists of rows of FilasEnLista
\* and the single rows that differ from a base row in one slot
PeticionesExportar == Peticiones

\* the payloads sent with a formato that is not "csv"
PeticionesBreves ==
    { [lista |-> TRUE, items |-> fs] : fs \in SeqsHasta(FilasEnLista, MaxFilas) }

\* the values of the GET parameter "formato"
Formatos == {"csv", "xlsx", ""}

SinPeticion ==
    [vista |-> "ninguna", formato |-> "", filas |-> [lista |-> TRUE, items |-> <<>>]]

Respuesta(status, tipo, valido, filas, csv, detalle, excepcion) ==
    [ status |-> status, tipo |-> tipo, valido |-> valido, filas |-> filas,
      csv |-> csv, detalle |-> detalle, excepcion |-> excepcion ]

SinRespuesta == Respuesta(0, "", FALSE, <<>>, <<>>, "", None)

\* an exception that leaves the view: the server answers 500
ErrorDeServidor(excepcion) == Respuesta(500, "html", FALSE, <<>>, <<>>, "", excepcion)

(***************************************************************************)
(* liquidacion_exportar: the CSV document                                  *)
(***************************************************************************)
ENCABEZADOS ==
    << "Tipo documento", "CUFE/CUDE", "NIT", "Proveedor", "Fecha", "Descripcion",
       "Prefijo + Folio",
       "Sub total", "Sub total - Cuenta contable",
       "IVA", "IVA - Cuenta contable",
       "INC", "INC - Cuenta contable",
       "ReteFuente (%)", "ReteFuente (valor)", "ReteFuente - Cuenta contable",
       "ReteICA (%)", "ReteICA (valor)", "ReteICA - Cuenta contable",
       "ReteIva (%)", "ReteIva (valor)", "ReteIva - Cuenta contable",
       "Total neto", "Total neto - Cuenta contable" >>

\* liquidacion_exportar.obtener_cuenta
obtener_cuenta(casillas, casilla) ==
    IF casillas[casilla].catalogo # NingunCatalogo
    THEN casillas[casilla].catalogo.codigo
    ELSE <<>>

\* (valor or Decimal("0")) * signo
MontoConSigno(valor, signo) ==
    DecMul(IF DecIsZero(valor) THEN DecZero ELSE valor, signo)

\* obtener_monto that leaves the sign of the nature out
obtener_monto_sin_signo(casillas, casilla) ==
    IF casillas[casilla].valor.some THEN casillas[casilla].valor.d
    ELSE casillas[casilla].monto

\* liquidacion_exportar.obtener_monto
obtener_monto(casillas, casilla) ==
    MontoConSigno(IF casillas[casilla].valor.some THEN casillas[casilla].valor.d
                  ELSE casillas[casilla].monto,
                  signo_por_naturaleza(casillas[casilla].naturaleza))

\* liquidacion_exportar.obtener_porcentaje
obtener_porcentaje(casillas, casilla) ==
    _decimal_to_str(IF casillas[casilla].porcentaje.some
                    THEN casillas[casilla].porcentaje.d ELSE DecZero, 4)

\* casillas.get(casilla, {}).get("valor", ...) rendered by _decimal_to_str,
\* which reads a value that is no Decimal with _parse_decimal: None gives 0
ValorDeCasilla(casillas, casilla) ==
    _decimal_to_str(IF casillas[casilla].valor.some THEN casillas[casilla].valor.d
                    ELSE DecZero, 2)

\* lines 860-893: the row written for a row result
FilaCsv(fila) ==
    ("Tipo documento" :> fila.original.documento.tipo_documento)
    @@ ("CUFE/CUDE" :> fila.original.documento.cufe)
    @@ ("NIT" :> fila.original.documento.nit)
    @@ ("Proveedor" :> fila.original.documento.proveedor)
    @@ ("Fecha" :> fila.original.documento.fecha)
    @@ ("Descripcion" :> fila.original.documento.descripcion)
    @@ ("Prefijo + Folio" :> fila.original.documento.prefijo_folio)
    @@ ("Sub total" :> ValorDeCasilla(fila.casillas, "SUBTOTAL"))
    @@ ("Sub total - Cuenta contable" :> obtener_cuenta(fila.casillas, "SUBTOTAL"))
    @@ ("IVA" :> ValorDeCasilla(fila.casillas, "IVA"))
    @@ ("IVA - Cuenta contable" :> obtener_cuenta(fila.casillas, "IVA"))
    @@ ("INC" :> ValorDeCasilla(fila.casillas, "INC"))
    @@ ("INC - Cuenta contable" :> obtener_cuenta(fila.casillas, "INC"))
    @@ ("ReteFuente (%)" :> obtener_porcentaje(fila.casillas, "RETEFUENTE"))
    @@ ("ReteFuente (valor)" :> _decimal_to_str(obtener_monto(fila.casillas, "RETEFUENTE"), 2))
    @@ ("ReteFuente - Cuenta contable" :> obtener_cuenta(fila.casillas, "RETEFUENTE"))
    @@ ("ReteICA (%)" :> obtener_porcentaje(fila.casillas, "RETEICA"))
    @@ ("ReteICA (valor)" :> _decimal_to_str(obtener_monto(fila.casillas, "RETEICA"), 2))
    @@ ("ReteICA - Cuenta contable" :> obtener_cuenta(fila.casillas, "RETEICA"))
    @@ ("ReteIva (%)" :> obtener_porcentaje(fila.casillas, "RETEIVA"))
    @@ ("ReteIva (valor)" :> _decimal_to_str(obtener_monto(fila.casillas, "RETEIVA"), 2))
    @@ ("ReteIva - Cuenta contable" :> obtener_cuenta(fila.casillas, "RETEIVA"))
    @@ ("Total neto" :> _decimal_to_str(fila.total_neto, 2))
    @@ ("Total neto - Cuenta contable" :> obtener_cuenta(fila.casillas, "TOTAL_NETO"))

\* the columns written with _decimal_to_str
COLUMNAS_DE_MONTO ==
    << "Sub total", "IVA", "INC", "ReteFuente (%)", "ReteFuente (valor)",
       "ReteICA (%)", "ReteICA (valor)", "ReteIva (%)", "ReteIva (valor)",
       "Total neto" >>

\* the exception that _decimal_to_str, or the product of obtener_monto,
\* raised while the row was written (lines 860-893), None when there was
\* none: the first one in the order of the columns
FilaCsvLanza(escrita) ==
    PrimeraExcepcion([ k \in 1..Len(COLUMNAS_DE_MONTO) |->
                         ExcepcionDeTexto(escrita[COLUMNAS_DE_MONTO[k]]) ])

(***************************************************************************)
(* Handlers                                                                *)
(***************************************************************************)
SinLlamada == [fn |-> "ninguna"]

SinRetorno == [hecho |-> FALSE]

\* a process that has not begun to serve its request, or has answered it
Reposo == [pc |-> "reposo"]

\* no other process serves a request
SinConcurrente ==
    [peticion |-> SinPeticion, ejecucion |-> Reposo, respuesta |-> SinRespuesta]

\* a FacturaXML row: of its fields the model keeps the key (empresa, cufe),
\* the provider, the description and the total
FacturaXml(empresa, cufe, proveedor_id, descripcion, total) ==
    [ empresa_id |-> empresa, cufe |-> cufe, proveedor_id |-> proveedor_id,
      descripcion |-> descripcion, total |-> total ]

\* tests.LiquidacionTestBase.setUp: one XML invoice and its spreadsheet row
FacturasXmlIniciales ==
    { FacturaXml(EmpresaActual, "CUFE-LIQ-1", 1, "Servicios",
                 _parse_decimal(Importe(134, 50), DecZero)) }

FacturasXlsIniciales ==
    { [id |-> 1, empresa_id |-> EmpresaActual, cufe |-> "CUFE-LIQ-1", activo |-> TRUE] }

\* the columns of the FacturaXLS table before and after migration 0003
ColumnasSinFecha ==
    { "id", "empresa_id", "tipo_documento", "cufe", "folio", "prefijo", "nit_emisor",
      "nombre_emisor", "iva", "inc", "total", "activo" }

ColumnasConFecha == ColumnasSinFecha \cup {"fecha_documento"}

BaseDatosInicial ==
    /\ proveedores = ProveedoresIniciales
    /\ cuentas_proveedor = CatalogoInicial
    /\ facturas_xml = FacturasXmlIniciales
    /\ facturas_xls = FacturasXlsIniciales

\* the user of the session (EmpresaTestMixin.usuario) and another user
Usuario == "usuario"

OtroUsuario == "otro"

\* a session without "empresa_actual_id", and the None that
\* _obtener_empresa_actual returns
NingunaEmpresa == 0

EmpresasIniciales ==
    { [id |-> EmpresaActual, activo |-> TRUE], [id |-> OtraEmpresa, activo |-> TRUE] }

Permiso(usuario, empresa) == [usuario |-> usuario, empresa_id |-> empresa]

\* tests.EmpresaTestMixin: setUpTestData and autenticar()
AccesoDePrueba ==
    /\ empresas = EmpresasIniciales
    /\ permisos = { Permiso(Usuario, EmpresaActual) }
    /\ sesion = [autenticado |-> TRUE, empresa_actual_id |-> EmpresaActual]

\* views._obtener_empresa_actual(request): the id of the company
_obtener_empresa_actual ==
    IF sesion.empresa_actual_id = NingunaEmpresa THEN NingunaEmpresa
    ELSE IF \E e \in empresas : e.id = sesion.empresa_actual_id /\ e.activo
    THEN sesion.empresa_actual_id
    ELSE NingunaEmpresa

SELECCIONA_EMPRESA_MSG == "Selecciona una empresa para continuar."

\* redirect(destino); @login_required redirects to "login"
RedireccionA(destino) == Respuesta(302, "redirect", FALSE, <<>>, <<>>, destino, None)

SinActividad ==
    /\ peticion = SinPeticion
    /\ errores = <<>>
    /\ filas_resultado = <<>>
    /\ respuesta = SinRespuesta
    /\ llamada = SinLlamada
    /\ retorno = SinRetorno
    /\ ejecucion = Reposo
    /\ concurrente = SinConcurrente

\* the database is the fixture of the tests, with the FacturaXLS table as the
\* migrations leave it or as ensure_fecha_documento_column expects to find it
Init ==
    /\ BaseDatosInicial
    /\ AccesoDePrueba
    /\ columnas_facturaxls \in {ColumnasSinFecha, ColumnasConFecha}
    /\ SinActividad

\* The client posts {"filas": filas} to liquidacion_validar
enviar_validar ==
    /\ peticion = SinPeticion
    /\ \E filas \in Peticiones :
          peticion' = [vista |-> "liquidacion_validar", formato |-> "", filas |-> filas]
    /\ UNCHANGED <<acceso, tablas, errores, filas_resultado, respuesta, llamada, retorno,
                   curso>>

\* The client gets liquidacion_exportar?formato=...&payload={"filas": filas}
enviar_exportar ==
    /\ peticion = SinPeticion
    /\ \E formato \in Formatos :
          \E filas \in (IF formato = "csv" THEN PeticionesExportar ELSE PeticionesBreves) :
              peticion' = [vista |-> "liquidacion_exportar", formato |-> formato,
                           filas |-> filas]
    /\ UNCHANGED <<acceso, tablas, errores, filas_resultado, respuesta, llamada, retorno,
                   curso>>

\* the exception of the first row that could not be serialised (line 765)
AlSerializar(filas) ==
    PrimeraExcepcion([ i \in 1..Len(filas) |->
                         SerializadaLanza(_serializar_fila_validada(filas[i])) ])

\* the exception of the first row that could not be written (lines 855-897)
AlEscribir(filas) ==
    PrimeraExcepcion([ i \in 1..Len(filas) |-> FilaCsvLanza(FilaCsv(filas[i])) ])

\* views.liquidacion_validar, lines 761-770: the JsonResponse, or the
\* exception that _validar_filas_liquidacion raised
ResponderValidacion(r) ==
    IF r.excepcion # None
    THEN /\ respuesta' = ErrorDeServidor(r.excepcion)
         /\ UNCHANGED <<errores, filas_resultado>>
    ELSE /\ errores' = r.errores
         /\ filas_resultado' = r.filas_resultado
         /\ respuesta' =
              IF AlSerializar(r.filas_resultado) # None
              THEN ErrorDeServidor(AlSerializar(r.filas_resultado))
              ELSE Respuesta(IF r.errores = <<>> THEN 200 ELSE 400, "json",
                             r.errores = <<>>,
                             [ i \in 1..Len(r.filas_resultado) |->
                                 _serializar_fila_validada(r.filas_resultado[i]) ],
                             <<>>, "", None)

\* the answer of a view that did not validate
ResponderSinValidar(r) ==
    /\ respuesta' = r
    /\ UNCHANGED <<errores, filas_resultado>>

\* views.ensure_fecha_documento_column (lines 142-166): the statement at
\* which the call may return and the columns the table has then. The
\* introspection of the table can fail (lines 150-151: return); the column
\* can be there already (lines 153-154: return); add_field can add it
\* (line 163) or fail, the failure being swallowed (lines 164-166: return)
ensure_fecha_documento_column ==
    { [retorna |-> "sin_descripcion", columnas |-> columnas_facturaxls] }
    \cup (IF "fecha_documento" \in columnas_facturaxls
          THEN { [retorna |-> "columna_presente", columnas |-> columnas_facturaxls] }
          ELSE { [retorna |-> "columna_creada",
                  columnas |-> columnas_facturaxls \cup {"fecha_documento"}],
                 [retorna |-> "error_silenciado", columnas |-> columnas_facturaxls] })

\* liquidacion_validar that begins, as liquidacion_exportar and dashboard
\* do, with a call of ensure_fecha_documento_column()
liquidacion_validar_asegurando_columna ==
    /\ peticion.vista = "liquidacion_validar"
    /\ respuesta = SinRespuesta
    /\ IF ~ sesion.autenticado
       THEN /\ ResponderSinValidar(RedireccionA("login"))
            /\ UNCHANGED columnas_facturaxls
       ELSE /\ \E e \in ensure_fecha_documento_column :
                  columnas_facturaxls' = e.columnas
            /\ IF _obtener_empresa_actual = NingunaEmpresa
               THEN ResponderSinValidar(Respuesta(400, "json", FALSE, <<>>, <<>>,
                                                  SELECCIONA_EMPRESA_MSG, None))
               ELSE ResponderValidacion(
                        _validar_filas_liquidacion(peticion.filas,
                                                   _obtener_empresa_actual))
    /\ UNCHANGED <<acceso, proveedores, cuentas_proveedor, facturas_xml, facturas_xls,
                   peticion, llamada, retorno, curso>>

\* views.liquidacion_validar (@login_required, lines 746-770)
liquidacion_validar ==
    /\ peticion.vista = "liquidacion_validar"
    /\ respuesta = SinRespuesta
    /\ IF ~ sesion.autenticado
       THEN ResponderSinValidar(RedireccionA("login"))
       ELSE IF _obtener_empresa_actual = NingunaEmpresa
       THEN ResponderSinValidar(Respuesta(400, "json", FALSE, <<>>, <<>>,
                                          SELECCIONA_EMPRESA_MSG, None))
       ELSE ResponderValidacion(
                _validar_filas_liquidacion(peticion.filas, _obtener_empresa_actual))
    /\ UNCHANGED <<acceso, tablas, peticion, llamada, retorno, curso>>

\* ResponderExportacion that writes the rows whatever the findings
ResponderExportacion_con_hallazgos(r) ==
    IF r.excepcion # None
    THEN /\ respuesta' = ErrorDeServidor(r.excepcion)
         /\ UNCHANGED <<errores, filas_resultado>>
    ELSE /\ errores' = r.errores
         /\ filas_resultado' = r.filas_resultado
         /\ respuesta' =
              IF AlEscribir(r.filas_resultado) # None
              THEN ErrorDeServidor(AlEscribir(r.filas_resultado))
              ELSE Respuesta(200, "csv", TRUE, <<>>,
                             [ i \in 1..Len(r.filas_resultado) |->
                                 FilaCsv(r.filas_resultado[i]) ],
                             "", None)

\* views.liquidacion_exportar, lines 792-901
ResponderExportacion(r) ==
    IF r.excepcion # None
    THEN /\ respuesta' = ErrorDeServidor(r.excepcion)
         /\ UNCHANGED <<errores, filas_resultado>>
    ELSE /\ errores' = r.errores
         /\ filas_resultado' = r.filas_resultado
         /\ respuesta' =
              IF r.errores # <<>>
              THEN Respuesta(400, "json", FALSE, <<>>, <<>>, "", None)
              ELSE IF AlEscribir(r.filas_resultado) # None
              THEN ErrorDeServidor(AlEscribir(r.filas_resultado))
              ELSE Respuesta(200, "csv", TRUE, <<>>,
                             [ i \in 1..Len(r.filas_resultado) |->
                                 FilaCsv(r.filas_resultado[i]) ],
                             "", None)

\* liquidacion.CATALOGO_RESPONSE_KEYS
CATALOGO_RESPONSE_KEYS ==
    [ SUBTOTAL   |-> "subtotales",
      IVA        |-> "iva",
      INC        |-> "inc",
      RETEFUENTE |-> "retefuente",
      RETEICA    |-> "reteica",
      RETEIVA    |-> "reteiva",
      TOTAL_NETO |-> "totalneto" ]

ClavesDeCatalogo == { CATALOGO_RESPONSE_KEYS[c] : c \in Casillas }

CasillaDeClave(clave) == CHOOSE c \in Casillas : CATALOGO_RESPONSE_KEYS[c] = clave

PROVEEDOR_NO_ENCONTRADO_MSG == "Proveedor no encontrado."

\* the ids of the URL /liquidacion/catalogos/<proveedor_id>/
ProveedoresPedidos == {1, 2, 3, 9999}

\* views.liquidacion_catalogos, lines 720-732: the entry of the response; JNull
\* and "" stand for a key that the entry does not carry
EntradaDeCatalogo(item) ==
    [ id |-> item.id, codigo |-> item.codigo, naturaleza |-> item.naturaleza,
      porcentaje |-> IF item.porcentaje.some
                     THEN JStr(_decimal_to_str(item.porcentaje.d, 4)) ELSE JNull,
      modo_calculo |-> item.modo_calculo ]

EntradasDe(items) == [ k \in 1..Len(items) |-> EntradaDeCatalogo(items[k]) ]

\* lines 712-733: the active entries of the provider, by slot and account code
CatalogosDe(proveedor_id) ==
    [ clave \in ClavesDeCatalogo |->
        EntradasDe(OrdenarPorCodigo({ c \in cuentas_proveedor :
                                        /\ c.proveedor_id = proveedor_id
                                        /\ c.activo
                                        /\ c.casilla = CasillaDeClave(clave) })) ]

\* The client gets liquidacion_catalogos for a provider id
enviar_catalogos ==
    /\ peticion = SinPeticion
    /\ \E proveedor_id \in ProveedoresPedidos :
          peticion' = [vista |-> "liquidacion_catalogos", formato |-> "",
                       filas |-> SinPeticion.filas, proveedor_id |-> proveedor_id]
    /\ UNCHANGED <<acceso, tablas, errores, filas_resultado, respuesta, llamada, retorno,
                   curso>>

\* views.liquidacion_catalogos (@login_required, lines 698-743)
liquidacion_catalogos ==
    /\ peticion.vista = "liquidacion_catalogos"
    /\ respuesta = SinRespuesta
    /\ respuesta' =
          IF ~ sesion.autenticado THEN RedireccionA("login")
          ELSE IF _obtener_empresa_actual = NingunaEmpresa
          THEN Respuesta(400, "json", FALSE, <<>>, <<>>, SELECCIONA_EMPRESA_MSG, None)
          ELSE IF \E p \in proveedores :
                p.id = peticion.proveedor_id /\ p.empresa_id = _obtener_empresa_actual
          THEN [ proveedor |-> peticion.proveedor_id,
                 catalogos |-> CatalogosDe(peticion.proveedor_id) ]
               @@ Respuesta(200, "json", FALSE, <<>>, <<>>, "", None)
          ELSE Respuesta(404, "json", FALSE, <<>>, <<>>, PROVEEDOR_NO_ENCONTRADO_MSG, None)
    /\ UNCHANGED <<acceso, tablas, peticion, errores, filas_resultado, llamada, retorno,
                   curso>>

FORMATO_NO_SOPORTADO_MSG == "Formato no soportado."

\* views.liquidacion_exportar (@login_required, lines 773-901); the process
\* that has answered keeps where its call of ensure_fecha_documento_column
\* (line 776) returned
liquidacion_exportar ==
    /\ peticion.vista = "liquidacion_exportar"
    /\ respuesta = SinRespuesta
    /\ IF ~ sesion.autenticado
       THEN /\ ResponderSinValidar(RedireccionA("login"))
            /\ UNCHANGED <<columnas_facturaxls, ejecucion>>
       ELSE /\ \E e \in ensure_fecha_documento_column :
                  /\ columnas_facturaxls' = e.columnas
                  /\ ejecucion' = [pc |-> "fin", ensure |-> e.retorna]
            /\ IF _obtener_empresa_actual = NingunaEmpresa
               THEN ResponderSinValidar(RedireccionA("seleccionar_empresa"))
               ELSE IF peticion.formato # "csv"
               THEN ResponderSinValidar(Respuesta(400, "json", FALSE, <<>>, <<>>,
                                                  FORMATO_NO_SOPORTADO_MSG, None))
               ELSE ResponderExportacion(
                        _validar_filas_liquidacion(peticion.filas, _obtener_empresa_actual))
    /\ UNCHANGED <<acceso, proveedores, cuentas_proveedor, facturas_xml, facturas_xls,
                   peticion, llamada, retorno, concurrente>>

Next ==
    \/ enviar_validar
    \/ enviar_exportar
    \/ enviar_catalogos
    \/ liquidacion_validar
    \/ liquidacion_exportar
    \/ liquidacion_catalogos

Spec == Init /\ [][Next]_vars

(***************************************************************************)
(* The functions of liquidacion.py called directly                         *)
(***************************************************************************)
CodigosDePrueba ==
    { c.codigo : c \in CatalogoInicial }
    \cup { <<>>, S_NA, S_na, S_NA2, S_BSP, S_bsp, P2310, P2432, P2408, P2365,
           P2368, P2367, P2335, <<"2", "3", "1">>,
           CUENTA_INC \o <<"1">>, <<"9", "9", "9", "9">>,
           <<"n", "a", "1">>, <<"n", "/", "a">>, S_BSP \o <<"-", "7">> }

D100 == DecInt(100)

DM100 == DecInt(-100)

D33_33 == DecNorm(3333, -2)

D0_414 == DecNorm(414, -3)

BasesDePrueba ==
    { DecZero, D100, DM100, D33_33, DecNorm(-5, -1),
      DecNaN("nan", FALSE, <<>>), DecNaN("snan", FALSE, <<>>), DecInfinito(TRUE),
      DecNorm(9, 999999), DecNorm(1, -1000026),
      DecDe(FALSE, <<1, 2, 3, 4, 5, 6, 7, 8, 9, 0, 1, 2, 3, 4, 5, 6, 7, 8, 9, 0,
                     1, 2, 3, 4, 5, 6, 7, 8, 9>>, ExpDe(0)) }

PorcentajesDePrueba ==
    { Ninguno, Algun(DecZero), Algun(D4), Algun(D9_5), Algun(D15), Algun(D0_414) }

ModosDePrueba == { "", "PORCENTAJE", "PORMIL" }

LlamadasPrefijo ==
    { [fn |-> "validar_prefijo_para_casilla", casilla |-> c, codigo |-> k] :
        c \in Casillas, k \in CodigosDePrueba }

LlamadasRetencion ==
    { [fn |-> "calcular_retencion", base |-> b,
       catalogo |-> Catalogo(1, 1, "RETEFUENTE", Cod(P2365, R001000), "C", pc, m, TRUE)] :
        b \in BasesDePrueba, pc \in PorcentajesDePrueba, m \in ModosDePrueba }

\* Decimals handed to _decimal_to_str: zeros of both signs, halves of a cent
\* of both signs, values with more and with fewer than two decimals, values
\* of 27 and of 31 digits, the values that are no numbers, and values below
\* Etiny and beyond Emax
DecimalesDePrueba ==
    { DecZero, DecNegZero, D4, D9_5, D100, DM100, D33_33, D0_414,
      DecNorm(5, -3), DecNorm(-5, -3), DecNorm(4, -3), DecNorm(-1, -3),
      DecNorm(1995, -3), DecNorm(-2675, -3), DecNorm(12345678, -3),
      DecNorm(9999, -3), DecNorm(1, 3), DecNorm(1, 26), DecNorm(-1, 30),
      DecNaN("nan", FALSE, <<>>), DecNaN("nan", TRUE, <<1, 2>>), DecNaN("snan", FALSE, <<>>),
      DecInfinito(FALSE), DecInfinito(TRUE),
      DecNorm(1, -1200000), DecNorm(-1, -1200000), DecNorm(1, 1000000),
      DecDe(FALSE, <<1, 2, 3, 4, 5, 6, 7, 8, 9, 0, 1, 2, 3, 4, 5>>, ExpDe(-3)),
      DecDe(TRUE, <<9, 9, 9, 9, 9, 9, 9, 9, 9, 9, 9, 9, 9, 9, 9, 9, 9, 9, 9, 9,
                    9, 9, 9, 9, 9, 9, 9, 9, 5>>, ExpDe(-3)) }

LlamadasDecimal ==
    { [fn |-> "_decimal_to_str", value |-> x, places |-> 2] : x \in DecimalesDePrueba }

InitFunciones ==
    /\ BaseDatosInicial
    /\ AccesoDePrueba
    /\ columnas_facturaxls = ColumnasConFecha
    /\ peticion = SinPeticion
    /\ errores = <<>>
    /\ filas_resultado = <<>>
    /\ respuesta = SinRespuesta
    /\ llamada \in LlamadasPrefijo \cup LlamadasRetencion \cup LlamadasDecimal
    /\ retorno = SinRetorno
    /\ ejecucion = Reposo
    /\ concurrente = SinConcurrente

Retornar(valor) ==
    /\ retorno' = [hecho |-> TRUE, valor |-> valor]
    /\ UNCHANGED <<acceso, tablas, peticion, errores, filas_resultado, respuesta, llamada,
                   curso>>

llamar_validar_prefijo ==
    /\ llamada.fn = "validar_prefijo_para_casilla"
    /\ ~ retorno.hecho
    /\ Retornar(validar_prefijo_para_casilla(llamada.casilla, llamada.codigo))

llamar_calcular_retencion ==
    /\ llamada.fn = "calcular_retencion"
    /\ ~ retorno.hecho
    /\ Retornar(calcular_retencion(llamada.base, llamada.catalogo))

\* _decimal_to_str(value, places): the text, or the exception of quantize
llamar_decimal_to_str ==
    /\ llamada.fn = "_decimal_to_str"
    /\ ~ retorno.hecho
    /\ Retornar(_decimal_to_str(llamada.value, llamada.places))

\* the text returned is handed to _parse_decimal; an exception is not
pasar_a_parse_decimal ==
    /\ llamada.fn = "_decimal_to_str"
    /\ retorno.hecho
    /\ ExcepcionDeTexto(retorno.valor) = None
    /\ llamada' = [fn |-> "_parse_decimal", value |-> JStr(retorno.valor),
                   de |-> llamada.value]
    /\ retorno' = SinRetorno
    /\ UNCHANGED <<acceso, tablas, peticion, errores, filas_resultado, respuesta, curso>>

llamar_parse_decimal ==
    /\ llamada.fn = "_parse_decimal"
    /\ ~ retorno.hecho
    /\ Retornar(_parse_decimal(llamada.value, DecZero))

NextFunciones ==
    \/ llamar_validar_prefijo
    \/ llamar_calcular_retencion
    \/ llamar_decimal_to_str
    \/ pasar_a_parse_decimal
    \/ llamar_parse_decimal

SpecFunciones == InitFunciones /\ [][NextFunciones]_vars

(***************************************************************************)
(* The uploads of the dashboard and the activation of spreadsheet invoices *)
(***************************************************************************)
\* the most files an upload carries, rows of a spreadsheet or entries of a ZIP
MaxArchivo == 2

\* the most files an upload carries that arrives while another is served
MaxConcurrente == 1

Empresas == {EmpresaActual, OtraEmpresa}

Cufes == {"CUFE-LIQ-1", "SYNC-2"}

\* FacturaXML.objects.filter(empresa=empresa, cufe=cufe).exists()
ExisteXml(xml, empresa, cufe) ==
    \E x \in xml : x.empresa_id = empresa /\ x.cufe = cufe

\* the tables that the statements of an upload read and write
BaseDeDatos ==
    [ proveedores |-> proveedores, facturas_xml |-> facturas_xml,
      facturas_xls |-> facturas_xls ]

\* after a statement the process goes on at the position ej
Sigue(ej, bd) == [ejecucion |-> ej, bd |-> bd, respuesta |-> SinRespuesta]

\* after a statement the process answers its request with r
Responde(r, bd) == [ejecucion |-> Reposo, bd |-> bd, respuesta |-> r]

\* set(FacturaXML.objects.filter(empresa=empresa).values_list("cufe")):
\* lines 170-172
xml_cufes(empresa, xml) == { x.cufe : x \in { y \in xml : y.empresa_id = empresa } }

\* lines 173-178: the rows of the company read from FacturaXLS whose flag is
\* not what xml_cufes says, with the flag changed in memory
actualizar(empresa, cufes, xls) ==
    { [id |-> f.id, activo |-> f.cufe \in cufes] :
        f \in { g \in xls : g.empresa_id = empresa /\ g.activo # (g.cufe \in cufes) } }

\* FacturaXLS.objects.bulk_update(actualizar, ["activo"]): line 180, the
\* flag of each row of the list written by primary key
bulk_update(filas, xls) ==
    { IF \E a \in filas : a.id = f.id
      THEN [f EXCEPT !.activo = (CHOOSE a \in filas : a.id = f.id).activo]
      ELSE f : f \in xls }

\* views.sincronizar_estado_facturas_xls (lines 169-180), which runs outside
\* any transaction: the statement of the process at position ej, that is the
\* query of line 170, the query of line 174 or the bulk_update of line 180,
\* which is not run when the list is empty. A process that has returned is
\* at Reposo
sincronizar_estado_facturas_xls(ej, bd) ==
    CASE ej.pc = "xml_cufes" ->
           [ ejecucion |-> [pc |-> "actualizar", empresa |-> ej.empresa,
                            xml_cufes |-> xml_cufes(ej.empresa, bd.facturas_xml)],
             bd |-> bd ]
      [] ej.pc = "actualizar" ->
           [ ejecucion |->
                 IF actualizar(ej.empresa, ej.xml_cufes, bd.facturas_xls) = {}
                 THEN Reposo
                 ELSE [pc |-> "bulk_update", empresa |-> ej.empresa,
                       actualizar |-> actualizar(ej.empresa, ej.xml_cufes,
                                                 bd.facturas_xls)],
             bd |-> bd ]
      [] ej.pc = "bulk_update" ->
           [ ejecucion |-> Reposo,
             bd |-> [bd EXCEPT !.facturas_xls = bulk_update(ej.actualizar, @)] ]

\* the document types of a spreadsheet row that the dashboard loads
TIPOS_ACEPTADOS ==
    { "Factura electronica", "Documento soporte con no obligados",
      "Nota de credito electronica" }

FilasExcel ==
    { [tipo |-> t, cufe |-> c] :
        t \in {"Factura electronica", "Application response"}, c \in Cufes }

\* the entries of a ZIP: an invoice, an XML without a required node
\* (ValueError), a file that is no XML document (ParseError)
EntradasZip ==
    { [clase |-> "factura", cufe |-> "CUFE-LIQ-1", nit |-> "900123456",
       nombre |-> "Proveedor Demo", descripcion |-> "Servicio de pruebas",
       total |-> Importe(1190, 0)],
      [clase |-> "factura", cufe |-> "SYNC-2", nit |-> "900777333",
       nombre |-> "Proveedor Nuevo", descripcion |-> "Factura sincronizada",
       total |-> Importe(119, 0)],
      [clase |-> "factura", cufe |-> "SYNC-2", nit |-> "900777333",
       nombre |-> "Proveedor Renombrado", descripcion |-> "Factura corregida",
       total |-> Importe(50, 0)],
      [clase |-> "sin_nodo"], [clase |-> "ilegible"] }

ParseError == "ParseError"

\* FacturaXLS.objects.get_or_create(empresa, cufe, defaults): lines 303-317;
\* activo is not among the defaults and the field's default is False
get_or_create_factura_xls(empresa, cufe, xls) ==
    IF \E f \in xls : f.empresa_id = empresa /\ f.cufe = cufe THEN xls
    ELSE xls \cup { [id |-> Cardinality(xls) + 1, empresa_id |-> empresa,
                     cufe |-> cufe, activo |-> FALSE] }

\* factura.save(): line 323, the row written with the flag the process holds
save_factura_xls(empresa, cufe, activo, xls) ==
    { IF f.empresa_id = empresa /\ f.cufe = cufe
      THEN [f EXCEPT !.activo = activo]
      ELSE f : f \in xls }

\* lines 296-302: the first row from row k on that the dashboard loads,
\* Len(filas) + 1 when there is none
RECURSIVE ProximaFila(_, _)
ProximaFila(filas, k) ==
    IF k > Len(filas) THEN k
    ELSE IF filas[k].tipo \in TIPOS_ACEPTADOS THEN k
    ELSE ProximaFila(filas, k + 1)

\* for _, row in df.iterrows(): the process goes to the get_or_create of the
\* next row that is loaded or, the rows done, to the synchronisation (line 324)
DesdeFila(filas, empresa, k, bd) ==
    IF ProximaFila(filas, k) > Len(filas)
    THEN Sigue([pc |-> "xml_cufes", empresa |-> empresa], bd)
    ELSE Sigue([pc |-> "get_or_create", empresa |-> empresa,
                k |-> ProximaFila(filas, k)], bd)

\* GuardarProveedor that writes the name of the document over the stored one
GuardarProveedor_actualizando(empresa, nit, nombre, provs) ==
    IF \E q \in provs : q.empresa_id = empresa /\ q.nit = nit
    THEN { IF q.empresa_id = empresa /\ q.nit = nit
           THEN [q EXCEPT !.nombre = nombre] ELSE q : q \in provs }
    ELSE provs \cup { [id |-> Cardinality(provs) + 1, empresa_id |-> empresa,
                       nit |-> nit, nombre |-> nombre] }

\* Proveedor.objects.get_or_create(empresa, nit, defaults={nombre}): lines 213-217
GuardarProveedor(empresa, nit, nombre, provs) ==
    IF \E q \in provs : q.empresa_id = empresa /\ q.nit = nit THEN provs
    ELSE provs \cup { [id |-> Cardinality(provs) + 1, empresa_id |-> empresa,
                       nit |-> nit, nombre |-> nombre] }

\* the proveedor that get_or_create returned
ProveedorDe(provs, empresa, nit) ==
    CHOOSE q \in provs : q.empresa_id = empresa /\ q.nit = nit

\* FacturaXML.objects.get_or_create(empresa, cufe, defaults={...}): lines 218-230
GuardarFacturaXml(empresa, entrada, provs, xml) ==
    IF ExisteXml(xml, empresa, entrada.cufe) THEN xml
    ELSE xml \cup { FacturaXml(empresa, entrada.cufe,
                               ProveedorDe(provs, empresa, entrada.nit).id,
                               entrada.descripcion,
                               _parse_decimal(entrada.total, DecZero)) }

\* lines 213-230: the two get_or_create calls
GuardarDocumento(entrada, empresa, provs, st) ==
    [ proveedores  |-> provs,
      facturas_xml |-> GuardarFacturaXml(empresa, entrada, provs, st.facturas_xml),
      excepcion    |-> None ]

\* views.procesar_xml on an entry: st = [proveedores, facturas_xml, excepcion]
procesar_xml(entrada, empresa, st) ==
    CASE entrada.clase = "ilegible" -> [st EXCEPT !.excepcion = ParseError]
      [] entrada.clase = "sin_nodo" -> [st EXCEPT !.excepcion = "ValueError"]
      [] OTHER ->
           GuardarDocumento(entrada, empresa,
               GuardarProveedor(empresa, entrada.nit, entrada.nombre, st.proveedores), st)

\* except ValueError: continue (lines 343-346): the first entry from entry k
\* on that is not skipped, Len(entradas) + 1 when there is none. procesar_xml
\* raises before its first statement on the database (lines 185-212)
RECURSIVE ProximaEntrada(_, _)
ProximaEntrada(entradas, k) ==
    IF k > Len(entradas) THEN k
    ELSE IF entradas[k].clase # "sin_nodo" THEN k
    ELSE ProximaEntrada(entradas, k + 1)

\* the loop over the files of the ZIP (lines 340-346): the process goes to
\* the first get_or_create of the next document, ends with the ParseError of
\* a file that is no XML document or, the entries done, goes to the
\* synchronisation (line 347)
DesdeEntrada(entradas, empresa, k, bd) ==
    IF ProximaEntrada(entradas, k) > Len(entradas)
    THEN Sigue([pc |-> "xml_cufes", empresa |-> empresa], bd)
    ELSE IF entradas[ProximaEntrada(entradas, k)].clase = "ilegible"
    THEN Responde(ErrorDeServidor(ParseError), bd)
    ELSE Sigue([pc |-> "proveedor", empresa |-> empresa,
                k |-> ProximaEntrada(entradas, k)], bd)

Redireccion == Respuesta(302, "redirect", FALSE, <<>>, <<>>, "dashboard", None)

\* the fixtures of SincronizarEstadoFacturasXLSTests, DashboardUploadZipTests
\* and LiquidacionTestBase: the tables FacturaXML and FacturaXLS
FacturasDePrueba ==
    { [xml |-> FacturasXmlIniciales, xls |-> FacturasXlsIniciales],
      [xml |-> FacturasXmlIniciales,
       xls |-> { [id |-> 1, empresa_id |-> EmpresaActual, cufe |-> "CUFE-LIQ-1",
                  activo |-> FALSE] }],
      [xml |-> {},
       xls |-> { [id |-> 1, empresa_id |-> EmpresaActual, cufe |-> "SYNC-2",
                  activo |-> TRUE] }],
      [xml |-> { FacturaXml(OtraEmpresa, "SYNC-2", 3, "Factura ajena",
                            _parse_decimal(Importe(119, 0), DecZero)) },
       xls |-> { [id |-> 1, empresa_id |-> EmpresaActual, cufe |-> "SYNC-2",
                  activo |-> TRUE] }],
      [xml |-> {},
       xls |-> { [id |-> 1, empresa_id |-> EmpresaActual, cufe |-> "SYNC-2",
                  activo |-> FALSE],
                 [id |-> 2, empresa_id |-> OtraEmpresa, cufe |-> "SYNC-2",
                  activo |-> TRUE] }] }

InitCargas ==
    /\ AccesoDePrueba
    /\ proveedores = ProveedoresIniciales
    /\ cuentas_proveedor = CatalogoInicial
    /\ \E t \in FacturasDePrueba :
          /\ facturas_xml = t.xml
          /\ facturas_xls = t.xls
    /\ columnas_facturaxls \in {ColumnasSinFecha, ColumnasConFecha}
    /\ SinActividad

EnCurso == peticion # SinPeticion /\ respuesta = SinRespuesta

\* the server has received nothing yet
SinUso == peticion = SinPeticion /\ llamada = SinLlamada

\* the direct call has not returned
LlamadaEnCurso == llamada # SinLlamada /\ ~ retorno.hecho

ConcurrenteEnCurso ==
    concurrente.peticion # SinPeticion /\ concurrente.respuesta = SinRespuesta

\* no process is at work
TodoEnReposo == ~ EnCurso /\ ~ LlamadaEnCurso /\ ~ ConcurrenteEnCurso

\* a user whose session has the company EmpresaActual posts a spreadsheet to
\* the dashboard of a server that is at rest
enviar_excel ==
    /\ SinUso
    /\ \E filas \in SeqsHasta(FilasExcel, MaxArchivo) :
          peticion' = [vista |-> "dashboard", carga |-> "upload_excel",
                       archivo |-> filas]
    /\ UNCHANGED <<acceso, tablas, errores, filas_resultado, respuesta, llamada, retorno,
                   curso>>

\* the same user posts a ZIP to the dashboard
enviar_zip ==
    /\ SinUso
    /\ \E entradas \in SeqsHasta(EntradasZip, MaxArchivo) :
          peticion' = [vista |-> "dashboard", carga |-> "upload_zip",
                       archivo |-> entradas]
    /\ UNCHANGED <<acceso, tablas, errores, filas_resultado, respuesta, llamada, retorno,
                   curso>>

\* the uploads of at most MaxConcurrente files
CargasConcurrentes ==
    { [vista |-> "dashboard", carga |-> "upload_excel", archivo |-> filas] :
        filas \in SeqsHasta(FilasExcel, MaxConcurrente) }
    \cup { [vista |-> "dashboard", carga |-> "upload_zip", archivo |-> entradas] :
             entradas \in SeqsHasta(EntradasZip, MaxConcurrente) }

\* the same user opens the dashboard, a GET
enviar_get ==
    /\ SinUso
    /\ peticion' = [vista |-> "dashboard", carga |-> "", archivo |-> <<>>]
    /\ UNCHANGED <<acceso, tablas, errores, filas_resultado, respuesta, llamada, retorno,
                   curso>>

\* an upload is posted with the same session while the server is busy with
\* the user's request or call; another process serves it
enviar_concurrente ==
    /\ EnCurso \/ LlamadaEnCurso
    /\ concurrente = SinConcurrente
    /\ \E pet \in CargasConcurrentes :
          concurrente' = [peticion |-> pet, ejecucion |-> Reposo,
                          respuesta |-> SinRespuesta]
    /\ UNCHANGED <<acceso, tablas, peticion, errores, filas_resultado, respuesta,
                   llamada, retorno, ejecucion>>

\* lines 353-356: facturas_xml, the query the comprehension of
\* facturas_xml_map runs; the page shows these same rows
FacturasXmlDe(empresa, xml) == { x \in xml : x.empresa_id = empresa }

\* lines 357 and 363: facturas_xls, the query the loop over the invoices runs
FacturasXlsDe(empresa, xls) == { f \in xls : f.empresa_id = empresa }

\* lines 362-430: what the page shows, the XML invoices read at line 356,
\* the spreadsheet invoices read at line 363 and the rows of the settlement
\* table, built from the latter and matched by CUFE in facturas_xml_map
Tablero(facturas_xml_leidas, facturas_xls_leidas) ==
    [ facturas_xml |-> facturas_xml_leidas,
      facturas_xls |-> facturas_xls_leidas,
      liquidacion_filas |->
          { [ factura_id |-> f.id, cufe |-> f.cufe,
              coincide_xml |-> \E x \in facturas_xml_leidas : x.cufe = f.cufe ] :
              f \in facturas_xls_leidas } ]
    @@ Respuesta(200, "html", FALSE, <<>>, <<>>, "", None)

\* a query that selects the fields of FacturaXLS (get_or_create, the page's
\* filter) names the column fecha_documento; the only("id", "cufe",
\* "activo") of line 174 and the bulk_update of line 180 do not
SinColumnaFecha == "fecha_documento" \notin columnas_facturaxls

OperationalError == "OperationalError"

\* views.dashboard after line 288: the process goes to the first statement
\* of the branch of its request (lines 289-295, 326-339, 349-356)
Comienza(pet, empresa, bd) ==
    IF pet.carga = "upload_excel" THEN DesdeFila(pet.archivo, empresa, 1, bd)
    ELSE IF pet.carga = "upload_zip" THEN DesdeEntrada(pet.archivo, empresa, 1, bd)
    ELSE Sigue([pc |-> "facturas_xml", empresa |-> empresa], bd)

\* sincronizar_estado_facturas_xls(empresa) has returned: return
\* redirect("dashboard"), lines 325 and 348
TrasSincronizar(s) ==
    IF s.ejecucion.pc = "reposo" THEN Responde(Redireccion, s.bd)
    ELSE Sigue(s.ejecucion, s.bd)

\* views.dashboard, lines 289-430: the statement on the database that the
\* process serving pet runs at the position ej. For a row of the spreadsheet
\* they are get_or_create (line 303), exists (line 320) and save (line 323);
\* for a document of the ZIP the two get_or_create of procesar_xml (lines
\* 214 and 219); then those of sincronizar_estado_facturas_xls. For the page
\* they are the query of the XML invoices (line 356), that of the providers
\* (lines 358-360), whose rows only fill fields of the settlement table that
\* the page of the model does not carry, and that of the spreadsheet
\* invoices (line 363), which selects every column of FacturaXLS; the
\* template reads the rows already fetched. No transaction and no lock holds
\* them together
Sentencia(pet, ej, bd) ==
    CASE ej.pc = "get_or_create" ->
           IF SinColumnaFecha THEN Responde(ErrorDeServidor(OperationalError), bd)
           ELSE Sigue([pc |-> "exists", empresa |-> ej.empresa, k |-> ej.k],
                      [bd EXCEPT !.facturas_xls =
                          get_or_create_factura_xls(ej.empresa,
                                                    pet.archivo[ej.k].cufe, @)])
      [] ej.pc = "exists" ->
           Sigue([pc |-> "save", empresa |-> ej.empresa, k |-> ej.k,
                  activo |-> ExisteXml(bd.facturas_xml, ej.empresa,
                                       pet.archivo[ej.k].cufe)], bd)
      [] ej.pc = "save" ->
           DesdeFila(pet.archivo, ej.empresa, ej.k + 1,
                     [bd EXCEPT !.facturas_xls =
                         save_factura_xls(ej.empresa, pet.archivo[ej.k].cufe,
                                          ej.activo, @)])
      [] ej.pc = "proveedor" ->
           Sigue([pc |-> "factura_xml", empresa |-> ej.empresa, k |-> ej.k],
                 [bd EXCEPT !.proveedores =
                     GuardarProveedor(ej.empresa, pet.archivo[ej.k].nit,
                                      pet.archivo[ej.k].nombre, @)])
      [] ej.pc = "factura_xml" ->
           DesdeEntrada(pet.archivo, ej.empresa, ej.k + 1,
                        [bd EXCEPT !.facturas_xml =
                            GuardarFacturaXml(ej.empresa, pet.archivo[ej.k],
                                              bd.proveedores, @)])
      [] ej.pc = "facturas_xml" ->
           Sigue([pc |-> "proveedores_empresa", empresa |-> ej.empresa,
                  facturas_xml |-> FacturasXmlDe(ej.empresa, bd.facturas_xml)], bd)
      [] ej.pc = "proveedores_empresa" ->
           Sigue([pc |-> "facturas_xls", empresa |-> ej.empresa,
                  facturas_xml |-> ej.facturas_xml], bd)
      [] ej.pc = "facturas_xls" ->
           IF SinColumnaFecha THEN Responde(ErrorDeServidor(OperationalError), bd)
           ELSE Responde(Tablero(ej.facturas_xml,
                                 FacturasXlsDe(ej.empresa, bd.facturas_xls)), bd)
      [] OTHER -> TrasSincronizar(sincronizar_estado_facturas_xls(ej, bd))

\* views.dashboard (@login_required, lines 282-430): what the next step of
\* the process that serves pet and is at ej may do. Its first step is
\* ensure_fecha_documento_column() and _obtener_empresa_actual(request),
\* lines 284-288; each later step is one statement on the database
PasosDeDashboard(pet, ej) ==
    IF ej.pc # "reposo"
    THEN { Sentencia(pet, ej, BaseDeDatos) @@ [columnas |-> columnas_facturaxls] }
    ELSE IF ~ sesion.autenticado
    THEN { Responde(RedireccionA("login"), BaseDeDatos)
           @@ [columnas |-> columnas_facturaxls] }
    ELSE { (IF _obtener_empresa_actual = NingunaEmpresa
            THEN Responde(RedireccionA("seleccionar_empresa"), BaseDeDatos)
            ELSE Comienza(pet, _obtener_empresa_actual, BaseDeDatos))
           @@ [columnas |-> e.columnas] : e \in ensure_fecha_documento_column }

\* what the step leaves in the database
Escribe(r) ==
    /\ proveedores' = r.bd.proveedores
    /\ facturas_xml' = r.bd.facturas_xml
    /\ facturas_xls' = r.bd.facturas_xls
    /\ columnas_facturaxls' = r.columnas

\* views.dashboard: a step of the process that serves the request
dashboard ==
    /\ peticion.vista = "dashboard"
    /\ respuesta = SinRespuesta
    /\ \E r \in PasosDeDashboard(peticion, ejecucion) :
          /\ ejecucion' = r.ejecucion
          /\ respuesta' = r.respuesta
          /\ Escribe(r)
    /\ UNCHANGED <<acceso, cuentas_proveedor, peticion, errores, filas_resultado,
                   llamada, retorno, concurrente>>

\* views.dashboard: a step of the process that serves the concurrent request
dashboard_concurrente ==
    /\ ConcurrenteEnCurso
    /\ \E r \in PasosDeDashboard(concurrente.peticion, concurrente.ejecucion) :
          /\ concurrente' = [peticion |-> concurrente.peticion,
                             ejecucion |-> r.ejecucion, respuesta |-> r.respuesta]
          /\ Escribe(r)
    /\ UNCHANGED <<acceso, cuentas_proveedor, peticion, errores, filas_resultado,
                   respuesta, llamada, retorno, ejecucion>>

\* sincronizar_estado_facturas_xls(empresa) called on its own, as the tests
\* do: the call, and then a statement of it at each step
llamar_sincronizar ==
    /\ IF LlamadaEnCurso
       THEN /\ ejecucion' = sincronizar_estado_facturas_xls(ejecucion, BaseDeDatos).ejecucion
            /\ facturas_xls' =
                  sincronizar_estado_facturas_xls(ejecucion, BaseDeDatos).bd.facturas_xls
            /\ retorno' =
                  IF sincronizar_estado_facturas_xls(ejecucion, BaseDeDatos).ejecucion.pc
                         = "reposo"
                  THEN [hecho |-> TRUE, valor |-> None]
                  ELSE SinRetorno
            /\ UNCHANGED llamada
       ELSE /\ SinUso
            /\ \E empresa \in Empresas :
                  /\ llamada' = [fn |-> "sincronizar_estado_facturas_xls",
                                 empresa |-> empresa]
                  /\ ejecucion' = [pc |-> "xml_cufes", empresa |-> empresa]
            /\ UNCHANGED <<facturas_xls, retorno>>
    /\ UNCHANGED <<acceso, proveedores, cuentas_proveedor, facturas_xml, columnas_facturaxls,
                   peticion, errores, filas_resultado, respuesta, concurrente>>

NextCargas ==
    \/ enviar_excel
    \/ enviar_get
    \/ enviar_zip
    \/ enviar_concurrente
    \/ dashboard
    \/ dashboard_concurrente
    \/ llamar_sincronizar

SpecCargas == InitCargas /\ [][NextCargas]_vars

(***************************************************************************)
(* The session: logging in, the permissions and the choice of a company    *)
(***************************************************************************)
Usuarios == {Usuario, OtroUsuario}

\* the company ids a POST to seleccionar_empresa carries
EmpresasPedidas == {EmpresaActual, OtraEmpresa, 999}

\* the requests to the four views that show data of the company
PeticionesDeDatos ==
    { [vista |-> "liquidacion_validar", formato |-> "",
       filas |-> [lista |-> TRUE, items |-> <<FilaCompleta>>]],
      [vista |-> "liquidacion_exportar", formato |-> "csv",
       filas |-> [lista |-> TRUE, items |-> <<FilaCompleta>>]],
      [vista |-> "liquidacion_catalogos", formato |-> "",
       filas |-> SinPeticion.filas, proveedor_id |-> 1],
      [vista |-> "liquidacion_catalogos", formato |-> "",
       filas |-> SinPeticion.filas, proveedor_id |-> 3],
      [vista |-> "dashboard", carga |-> "", archivo |-> <<>>] }

\* EmpresaTestMixin.setUpTestData, before anybody logs in
InitSesion ==
    /\ BaseDatosInicial
    /\ columnas_facturaxls = ColumnasConFecha
    /\ empresas = EmpresasIniciales
    /\ permisos = { Permiso(Usuario, EmpresaActual) }
    /\ sesion = [autenticado |-> FALSE, empresa_actual_id |-> NingunaEmpresa]
    /\ SinActividad

\* what no step of the session changes but the views themselves
SinTocarDatos ==
    UNCHANGED <<tablas, peticion, errores, filas_resultado, respuesta, llamada, retorno,
                curso>>

\* the process is between two statements of the user's request
Sirviendo == ejecucion.pc \notin {"reposo", "fin"}

\* client.force_login(usuario): a new session; the client sends its requests
\* one after another
iniciar_sesion ==
    /\ ~ Sirviendo
    /\ ~ sesion.autenticado
    /\ sesion' = [autenticado |-> TRUE, empresa_actual_id |-> NingunaEmpresa]
    /\ UNCHANGED <<empresas, permisos>>
    /\ SinTocarDatos

\* the logout view: logout(request) flushes the session
cerrar_sesion ==
    /\ ~ Sirviendo
    /\ sesion.autenticado
    /\ sesion' = [autenticado |-> FALSE, empresa_actual_id |-> NingunaEmpresa]
    /\ UNCHANGED <<empresas, permisos>>
    /\ SinTocarDatos

\* PermisoEmpresa.objects.create(usuario, empresa), unique_together
conceder_permiso ==
    /\ \E u \in Usuarios : \E e \in Empresas :
          /\ Permiso(u, e) \notin permisos
          /\ permisos' = permisos \cup { Permiso(u, e) }
    /\ UNCHANGED <<empresas, sesion>>
    /\ SinTocarDatos

\* PermisoEmpresa.objects.filter(...).delete()
revocar_permiso ==
    /\ \E p \in permisos : permisos' = permisos \ {p}
    /\ UNCHANGED <<empresas, sesion>>
    /\ SinTocarDatos

\* an administrator sets Empresa.activo
cambiar_activo ==
    /\ \E e \in empresas :
          empresas' = (empresas \ {e}) \cup { [e EXCEPT !.activo = ~ e.activo] }
    /\ UNCHANGED <<permisos, sesion>>
    /\ SinTocarDatos

\* the user gets or posts seleccionar_empresa
pedir_seleccion ==
    /\ ~ EnCurso
    /\ \/ peticion' = [vista |-> "seleccionar_empresa", metodo |-> "GET",
                       empresa_id |-> NingunaEmpresa]
       \/ \E e \in EmpresasPedidas :
             peticion' = [vista |-> "seleccionar_empresa", metodo |-> "POST",
                          empresa_id |-> e]
    /\ respuesta' = SinRespuesta
    /\ ejecucion' = Reposo
    /\ UNCHANGED <<acceso, tablas, errores, filas_resultado, llamada, retorno, concurrente>>

\* the user sends a request to one of the views that show data
pedir_datos ==
    /\ ~ EnCurso
    /\ peticion' \in PeticionesDeDatos
    /\ respuesta' = SinRespuesta
    /\ errores' = <<>>
    /\ filas_resultado' = <<>>
    /\ ejecucion' = Reposo
    /\ UNCHANGED <<acceso, tablas, llamada, retorno, concurrente>>

\* lines 245-249: the permissions of request.user on active companies
PermisosDe(usuario) ==
    { q \in permisos :
        /\ q.usuario = usuario
        /\ \E e \in empresas : e.id = q.empresa_id /\ e.activo }

\* lines 270-278: the page with the companies to choose from; the template
\* runs the query permisos when it iterates over it
PaginaDeSeleccion(empresa_actual) ==
    [ permisos |-> PermisosDe(Usuario), empresa_actual |-> empresa_actual ]
    @@ Respuesta(200, "html", FALSE, <<>>, <<>>, "", None)

\* views.seleccionar_empresa (@login_required, lines 243-278), request.user
\* being Usuario. permisos is a lazy query, run anew each time the view uses
\* it: permisos.exists() (line 250), permisos.filter(...).first() (line 260)
\* and the iteration of the template (line 271); _obtener_empresa_actual
\* (line 270) is a query too. Each step is one of them
seleccionar_empresa ==
    /\ peticion.vista = "seleccionar_empresa"
    /\ respuesta = SinRespuesta
    /\ CASE ejecucion.pc = "reposo" ->
              IF ~ sesion.autenticado
              THEN /\ respuesta' = RedireccionA("login")
                   /\ UNCHANGED <<sesion, ejecucion>>
              ELSE IF PermisosDe(Usuario) = {}
              THEN /\ sesion' = [autenticado |-> FALSE,
                                 empresa_actual_id |-> NingunaEmpresa]
                   /\ respuesta' = RedireccionA("login")
                   /\ UNCHANGED ejecucion
              ELSE /\ ejecucion' = [pc |-> IF peticion.metodo = "POST"
                                           THEN "first" ELSE "empresa_actual"]
                   /\ UNCHANGED <<sesion, respuesta>>
         [] ejecucion.pc = "first" ->
              IF \E q \in PermisosDe(Usuario) : q.empresa_id = peticion.empresa_id
              THEN /\ sesion' = [sesion EXCEPT !.empresa_actual_id = peticion.empresa_id]
                   /\ respuesta' = RedireccionA("dashboard")
                   /\ ejecucion' = Reposo
              ELSE /\ ejecucion' = [pc |-> "empresa_actual"]
                   /\ UNCHANGED <<sesion, respuesta>>
         [] ejecucion.pc = "empresa_actual" ->
              /\ ejecucion' = [pc |-> "render",
                               empresa_actual |-> _obtener_empresa_actual]
              /\ UNCHANGED <<sesion, respuesta>>
         [] ejecucion.pc = "render" ->
              /\ respuesta' = PaginaDeSeleccion(ejecucion.empresa_actual)
              /\ ejecucion' = Reposo
              /\ UNCHANGED sesion
    /\ UNCHANGED <<tablas, empresas, permisos, peticion, errores, filas_resultado,
                   llamada, retorno, concurrente>>

NextSesion ==
    \/ iniciar_sesion
    \/ cerrar_sesion
    \/ conceder_permiso
    \/ revocar_permiso
    \/ cambiar_activo
    \/ pedir_seleccion
    \/ pedir_datos
    \/ seleccionar_empresa
    \/ liquidacion_validar
    \/ liquidacion_exportar
    \/ liquidacion_catalogos
    \/ dashboard

SpecSesion == InitSesion /\ [][NextSesion]_vars

(***************************************************************************)
(* Properties of liquidacion_validar                                       *)
(***************************************************************************)
Respondida == respuesta.status # 0

FilasPedidas == peticion.filas.items

\* the request was validated: the payload was read and no exception was raised
Validada ==
    /\ Respondida
    /\ peticion.filas.lista
    /\ respuesta.excepcion = None
    /\ respuesta.detalle = ""

\* the rows of a request that liquidacion_validar answered
Indices ==
    IF Validada /\ peticion.vista = "liquidacion_validar"
    THEN 1..Len(FilasPedidas) ELSE {}

\* the rows of a request that liquidacion_exportar validated
IndicesExportar ==
    IF Validada /\ peticion.vista = "liquidacion_exportar"
    THEN 1..Len(FilasPedidas) ELSE {}

\* the amount the request carries for a slot of its i-th row
ImporteEnviado(i, casilla) ==
    _parse_decimal(FilasPedidas[i].importes[CASILLA_FIELD_MAP[casilla]], DecZero)

CuentaEnviada(i, casilla) == FilasPedidas[i].cuentas[CASILLA_FIELD_MAP[casilla]]

\* a finding with this message on the slot's field of the i-th row
HayHallazgo(i, casilla, mensaje) ==
    \E k \in 1..Len(errores) :
        /\ errores[k].fila = JInt(i - 1)
        /\ errores[k].campo = CASILLA_FIELD_MAP[casilla]
        /\ errores[k].mensaje = mensaje

HayHallazgoEnCampo(i, casilla) ==
    \E k \in 1..Len(errores) :
        /\ errores[k].fila = JInt(i - 1)
        /\ errores[k].campo = CASILLA_FIELD_MAP[casilla]

HayHallazgoDeFila(i) == \E k \in 1..Len(errores) : errores[k].fila = JInt(i - 1)

\* the active catalog entries of a provider of the session's company for a slot
OpcionesActivas(proveedor_id, casilla) ==
    { c \in cuentas_proveedor :
        /\ c.activo
        /\ c.casilla = casilla
        /\ JInt(c.proveedor_id) = proveedor_id
        /\ \E p \in proveedores : p.id = c.proveedor_id /\ p.empresa_id = EmpresaActual }

NetoDeFila(r) ==
    DecSub(DecSub(DecSub(DecAdd(DecAdd(r.subtotal, r.iva), r.inc),
                         r.retefuente), r.reteica), r.reteiva)

\* C1: in every row of the result, the value of the TOTAL_NETO slot and the
\* row's total_neto are subtotal + iva + inc - retefuente - reteica - reteiva,
\* computed from the row's parsed subtotal, IVA and INC and the three
\* withholding values of the row, whatever total_neto the request carried.
C1_TotalNetoCalculado ==
    \A i \in Indices :
        /\ filas_resultado[i].subtotal = ImporteEnviado(i, "SUBTOTAL")
        /\ filas_resultado[i].iva = ImporteEnviado(i, "IVA")
        /\ filas_resultado[i].inc = ImporteEnviado(i, "INC")
        /\ filas_resultado[i].total_neto = NetoDeFila(filas_resultado[i])
        /\ filas_resultado[i].casillas["TOTAL_NETO"].valor
             = Algun(NetoDeFila(filas_resultado[i]))
        /\ filas_resultado[i].casillas["TOTAL_NETO"].monto = NetoDeFila(filas_resultado[i])
        /\ respuesta.filas[i].importes["total_neto"]
             = _decimal_to_str(NetoDeFila(filas_resultado[i]), 2)
        /\ respuesta.filas[i].total_neto_calculado
             = _decimal_to_str(NetoDeFila(filas_resultado[i]), 2)

\* a row answered whose request carried a non-zero total_neto other than the
\* net total of the row, with withholdings that count
C1_Witness ==
    \E i \in Indices :
        /\ ~ DecIsZero(ImporteEnviado(i, "TOTAL_NETO"))
        /\ ImporteEnviado(i, "TOTAL_NETO") # filas_resultado[i].total_neto
        /\ ~ DecIsZero(filas_resultado[i].retefuente)
        /\ ~ DecIsZero(filas_resultado[i].total_neto)

SinHallazgoObligatorio(i, casilla) == ~ HayHallazgo(i, casilla, CAMPO_OBLIGATORIO_MSG)

\* C2 as stated: for every slot, TOTAL_NETO included, an amount sent that is
\* exactly zero brings no CAMPO_OBLIGATORIO_MSG finding on that slot.
C2_CeroSinHallazgo ==
    \A i \in Indices : \A casilla \in Casillas :
        DecIsZero(ImporteEnviado(i, casilla)) => SinHallazgoObligatorio(i, casilla)

\* C2: for every slot other than TOTAL_NETO an amount sent that is exactly zero
\* brings no CAMPO_OBLIGATORIO_MSG finding on that slot, with or without an
\* account; for TOTAL_NETO it brings none when the net total derived for the
\* row is zero as well.
C2_CeroSinHallazgoSalvoNeto ==
    \A i \in Indices : \A casilla \in Casillas :
        /\ DecIsZero(ImporteEnviado(i, casilla))
        /\ casilla = "TOTAL_NETO" => DecIsZero(filas_resultado[i].total_neto)
        => SinHallazgoObligatorio(i, casilla)

\* a row answered with a zero amount and no account on a slot that has
\* options, and with zero sent and derived for TOTAL_NETO, no account chosen
C2_Witness ==
    \E i \in Indices : \E casilla \in Casillas \ {"TOTAL_NETO"} :
        /\ DecIsZero(ImporteEnviado(i, casilla))
        /\ EsVacio(CuentaEnviada(i, casilla))
        /\ OpcionesActivas(FilasPedidas[i].proveedor_id, casilla) # {}
        /\ DecIsZero(ImporteEnviado(i, "TOTAL_NETO"))
        /\ DecIsZero(filas_resultado[i].total_neto)
        /\ EsVacio(CuentaEnviada(i, "TOTAL_NETO"))
        /\ OpcionesActivas(FilasPedidas[i].proveedor_id, "TOTAL_NETO") # {}

\* the amount that asks for an account: the one sent and, for TOTAL_NETO,
\* the net total derived for the row as well
ImporteNoCero(i, casilla) ==
    \/ ~ DecIsZero(ImporteEnviado(i, casilla))
    \/ casilla = "TOTAL_NETO" /\ ~ DecIsZero(filas_resultado[i].total_neto)

Rechazada == respuesta.status = 400 /\ ~ respuesta.valido

\* C3: a slot with a non-zero amount, no account chosen (null or empty) and at
\* least one active catalog option of the row's provider gets the
\* CAMPO_OBLIGATORIO_MSG finding on its field, and the response is invalid
\* with status 400.
C3_CuentaObligatoria ==
    \A i \in Indices : \A casilla \in Casillas :
        /\ ImporteNoCero(i, casilla)
        /\ EsVacio(CuentaEnviada(i, casilla))
        /\ OpcionesActivas(FilasPedidas[i].proveedor_id, casilla) # {}
        => /\ HayHallazgo(i, casilla, CAMPO_OBLIGATORIO_MSG)
           /\ Rechazada

\* a slot other than TOTAL_NETO answered with the account-required finding
C3_Witness ==
    \E i \in Indices : \E casilla \in Casillas \ {"TOTAL_NETO"} :
        /\ ~ DecIsZero(ImporteEnviado(i, casilla))
        /\ EsVacio(CuentaEnviada(i, casilla))
        /\ OpcionesActivas(FilasPedidas[i].proveedor_id, casilla) # {}
        /\ HayHallazgo(i, casilla, CAMPO_OBLIGATORIO_MSG)
        /\ respuesta.status = 400

\* C4: a slot with a non-zero amount whose provider has no catalog options for
\* it gets a blocking finding on its field that carries the slot's
\* mensaje_sin_opciones.
C4_SinOpciones ==
    \A i \in Indices : \A casilla \in Casillas :
        /\ ~ DecIsZero(ImporteEnviado(i, casilla))
        /\ OpcionesActivas(FilasPedidas[i].proveedor_id, casilla) = {}
        => /\ HayHallazgo(i, casilla, CASILLA_RULES[casilla].mensaje_sin_opciones)
           /\ Rechazada

\* a withholding slot of a provider without options for it, answered with the
\* slot's own message
C4_Witness ==
    \E i \in Indices :
        /\ FilasPedidas[i].proveedor_id = JInt(2)
        /\ ~ DecIsZero(ImporteEnviado(i, "RETEFUENTE"))
        /\ OpcionesActivas(FilasPedidas[i].proveedor_id, "RETEFUENTE") = {}
        /\ HayHallazgo(i, "RETEFUENTE", SIN_OPCIONES_RETEFUENTE_MSG)
        /\ respuesta.status = 400

\* the chosen account is an active entry of the row's provider for the slot,
\* of the slot's nature and family, with a percentage where one is needed
CuentaBienElegida(i, casilla) ==
    /\ IntFromJ(CuentaEnviada(i, casilla)).ok
    /\ \E c \in OpcionesActivas(FilasPedidas[i].proveedor_id, casilla) :
          /\ EntDe(c.id) = IntFromJ(CuentaEnviada(i, casilla)).n
          /\ c.naturaleza = CASILLA_RULES[casilla].naturaleza
          /\ validar_prefijo_para_casilla(casilla, c.codigo) = None
          /\ casilla \in RETENCIONES => c.porcentaje.some

\* the slot is left without account because the provider has no entry for it
SinParametrizacion(i, casilla) ==
    /\ EsVacio(CuentaEnviada(i, casilla))
    /\ OpcionesActivas(FilasPedidas[i].proveedor_id, casilla) = {}

\* every slot of every row is well chosen or without parametrization, and a
\* withholding, IVA or TOTAL_NETO slot without parametrization has an amount
PeticionSinParametrizacion ==
    /\ Indices # {}
    /\ \A i \in Indices : \A casilla \in Casillas :
          CuentaBienElegida(i, casilla) \/ SinParametrizacion(i, casilla)
    /\ \E i \in Indices : \E casilla \in RETENCIONES \cup {"IVA", "TOTAL_NETO"} :
          SinParametrizacion(i, casilla) /\ ~ DecIsZero(ImporteEnviado(i, casilla))

\* C5: when the provider has no active catalog entry for a slot and the row
\* leaves that slot's account empty, the response is 200 with valido true and
\* no findings, and the account returned for the slot is null, although the
\* slot's amount is non-zero.
C5_SinParametrizacionValida ==
    PeticionSinParametrizacion =>
        /\ respuesta.status = 200
        /\ respuesta.valido
        /\ errores = <<>>
        /\ \A i \in Indices : \A casilla \in Casillas :
              SinParametrizacion(i, casilla) =>
                  respuesta.filas[i].cuentas[CASILLA_FIELD_MAP[casilla]] = JNull

\* the chosen account is a catalog entry of some other provider
CuentaAjena(i, casilla) ==
    /\ ~ EsVacio(CuentaEnviada(i, casilla))
    /\ IntFromJ(CuentaEnviada(i, casilla)).ok
    /\ \E c \in cuentas_proveedor :
          /\ EntDe(c.id) = IntFromJ(CuentaEnviada(i, casilla)).n
          /\ JInt(c.proveedor_id) # FilasPedidas[i].proveedor_id

\* C6: choosing for a slot a catalog entry of a provider other than the row's
\* brings the CUENTA_PROVEEDOR_MSG finding on the slot's field and leaves the
\* slot unresolved, even when the entry's slot, nature and prefix all match.
C6_CuentaDeOtroProveedor ==
    \A i \in Indices : \A casilla \in Casillas :
        CuentaAjena(i, casilla) =>
            /\ HayHallazgo(i, casilla, CUENTA_PROVEEDOR_MSG)
            /\ filas_resultado[i].casillas[casilla].catalogo = NingunCatalogo
            /\ respuesta.filas[i].cuentas[CASILLA_FIELD_MAP[casilla]] = JNull

\* a row of provider 1 that chose the SUBTOTAL account of provider 2, whose
\* slot, nature and prefix match, in a request that also carries a row of
\* provider 2, so that the entry is among the catalogs loaded
C6_Witness ==
    \E i \in Indices : \E j \in Indices :
        /\ FilasPedidas[i].proveedor_id = JInt(1)
        /\ FilasPedidas[j].proveedor_id = JInt(2)
        /\ CuentaEnviada(i, "SUBTOTAL") = JInt(15)
        /\ CuentaAjena(i, "SUBTOTAL")
        /\ \E c \in cuentas_proveedor :
              /\ c.id = 15 /\ c.casilla = "SUBTOTAL" /\ c.activo
              /\ c.naturaleza = CASILLA_RULES["SUBTOTAL"].naturaleza
              /\ validar_prefijo_para_casilla("SUBTOTAL", c.codigo) = None
        /\ HayHallazgo(i, "SUBTOTAL", CUENTA_PROVEEDOR_MSG)

CatalogoConforme(c, proveedor_id, casilla) ==
    /\ c \in cuentas_proveedor
    /\ JInt(c.proveedor_id) = proveedor_id
    /\ c.casilla = casilla
    /\ c.naturaleza = CASILLA_RULES[casilla].naturaleza
    /\ validar_prefijo_para_casilla(casilla, c.codigo) = None

\* C7: every slot of the result that carries a resolved catalog entry carries
\* one that belongs to the row's provider, is tagged with that slot, has the
\* slot's required nature and has an account code that
\* validar_prefijo_para_casilla accepts for the slot.
C7_CatalogoResuelto ==
    \A i \in Indices : \A casilla \in Casillas :
        filas_resultado[i].casillas[casilla].catalogo # NingunCatalogo =>
            CatalogoConforme(filas_resultado[i].casillas[casilla].catalogo,
                             FilasPedidas[i].proveedor_id, casilla)

\* a row answered with all its seven slots resolved
C7_Witness ==
    \E i \in Indices : \A casilla \in Casillas :
        /\ filas_resultado[i].casillas[casilla].catalogo # NingunCatalogo
        /\ respuesta.filas[i].cuentas[CASILLA_FIELD_MAP[casilla]] = CuentaEnviada(i, casilla)

\* the withholding the catalog entry resolved for the slot gives on the row's
\* SUBTOTAL amount
RetencionDeFila(i, casilla) ==
    calcular_retencion(ImporteEnviado(i, "SUBTOTAL"),
                       filas_resultado[i].casillas[casilla].catalogo)

ResueltaConPorcentaje(i, casilla) ==
    /\ filas_resultado[i].casillas[casilla].catalogo # NingunCatalogo
    /\ filas_resultado[i].casillas[casilla].catalogo.porcentaje.some

ValorRetenido(r, casilla) ==
    IF casilla = "RETEFUENTE" THEN r.retefuente
    ELSE IF casilla = "RETEICA" THEN r.reteica
    ELSE r.reteiva

\* C10: for each of the three withholding slots whose chosen account resolves
\* and carries a percentage, the slot's percentage and value are those of
\* calcular_retencion(SUBTOTAL amount of the row, entry), in place of the
\* amount and percentage the request carried; the row of subtotal 100, IVA 19,
\* INC 0 with entries of 4 %, 9.5 % and 15 % gets 4.00, 9.50, 15.00 and the net
\* total 90.50.
C10_RetencionCalculada ==
    /\ \A i \in Indices : \A casilla \in RETENCIONES :
          ResueltaConPorcentaje(i, casilla) =>
              /\ filas_resultado[i].casillas[casilla].porcentaje
                   = Algun(RetencionDeFila(i, casilla).porcentaje)
              /\ filas_resultado[i].casillas[casilla].valor
                   = Algun(RetencionDeFila(i, casilla).valor)
              /\ filas_resultado[i].casillas[casilla].monto
                   = RetencionDeFila(i, casilla).valor
              /\ ValorRetenido(filas_resultado[i], casilla)
                   = RetencionDeFila(i, casilla).valor
              /\ respuesta.filas[i].importes[CASILLA_FIELD_MAP[casilla]]
                   = _decimal_to_str(RetencionDeFila(i, casilla).valor, 2)
              /\ respuesta.filas[i].porcentajes[CASILLA_FIELD_MAP[casilla]]
                   = _decimal_to_str(RetencionDeFila(i, casilla).porcentaje, 4)
    /\ (Indices # {} /\ FilasPedidas = <<FilaCompleta>>) =>
          /\ respuesta.status = 200
          /\ respuesta.filas[1].importes["retefuente"] = NumStr(4, 0, 2)
          /\ respuesta.filas[1].importes["reteica"] = NumStr(9, 50, 2)
          /\ respuesta.filas[1].importes["reteiva"] = NumStr(15, 0, 2)
          /\ respuesta.filas[1].total_neto_calculado = NumStr(90, 50, 2)

\* a row answered whose request carried, for a withholding slot that resolved,
\* another amount and another percentage than the entry gives
C10_Witness ==
    \E i \in Indices : \E casilla \in RETENCIONES :
        /\ ResueltaConPorcentaje(i, casilla)
        /\ ~ DecIsZero(ImporteEnviado(i, casilla))
        /\ ImporteEnviado(i, casilla) # RetencionDeFila(i, casilla).valor
        /\ _parse_decimal(FilasPedidas[i].porcentajes[CASILLA_FIELD_MAP[casilla]], DecZero)
             # RetencionDeFila(i, casilla).porcentaje
        /\ ~ DecIsZero(RetencionDeFila(i, casilla).valor)
        /\ filas_resultado[i].casillas[casilla].valor
             = Algun(RetencionDeFila(i, casilla).valor)

(***************************************************************************)
(* Properties of liquidacion_exportar and of the shape of the results      *)
(***************************************************************************)
\* the request was exported: the response is the CSV document
Exportada == IndicesExportar # {} /\ respuesta.tipo = "csv"

ColumnaCuenta(casilla) ==
    CASE casilla = "SUBTOTAL" -> "Sub total - Cuenta contable"
      [] casilla = "IVA" -> "IVA - Cuenta contable"
      [] casilla = "INC" -> "INC - Cuenta contable"
      [] casilla = "RETEFUENTE" -> "ReteFuente - Cuenta contable"
      [] casilla = "RETEICA" -> "ReteICA - Cuenta contable"
      [] casilla = "RETEIVA" -> "ReteIva - Cuenta contable"
      [] OTHER -> "Total neto - Cuenta contable"

ColumnaValor(casilla) ==
    CASE casilla = "SUBTOTAL" -> "Sub total"
      [] casilla = "IVA" -> "IVA"
      [] casilla = "INC" -> "INC"
      [] casilla = "RETEFUENTE" -> "ReteFuente (valor)"
      [] casilla = "RETEICA" -> "ReteICA (valor)"
      [] casilla = "RETEIVA" -> "ReteIva (valor)"
      [] OTHER -> "Total neto"

\* C11: in the CSV export the account column of a slot holds the code of the
\* account resolved for the slot, and the placeholder "N/A", not an empty
\* string, when no account was chosen for the slot or the provider has no
\* catalog options for it.
C11_CuentaOPlaceholder ==
    Exportada =>
        \A i \in IndicesExportar : \A casilla \in Casillas :
            /\ filas_resultado[i].casillas[casilla].catalogo # NingunCatalogo =>
                  respuesta.csv[i][ColumnaCuenta(casilla)]
                    = filas_resultado[i].casillas[casilla].catalogo.codigo
            /\ ( \/ EsVacio(CuentaEnviada(i, casilla))
                 \/ OpcionesActivas(FilasPedidas[i].proveedor_id, casilla) = {} ) =>
                  respuesta.csv[i][ColumnaCuenta(casilla)] = S_NA

\* the value the slot ends with
ValorCalculado(i, casilla) ==
    IF filas_resultado[i].casillas[casilla].valor.some
    THEN filas_resultado[i].casillas[casilla].valor.d
    ELSE filas_resultado[i].casillas[casilla].monto

\* C12: in the CSV export a slot whose computed value is zero has "N/A" in
\* its account column, also when an account was chosen for the slot and
\* resolves.
C12_ValorCeroPlaceholder ==
    Exportada =>
        \A i \in IndicesExportar : \A casilla \in Casillas :
            DecIsZero(ValorCalculado(i, casilla)) =>
                respuesta.csv[i][ColumnaCuenta(casilla)] = S_NA

\* a finding is sure for the row: an amount without account where options
\* exist, or an account of another provider
FilaConHallazgoSeguro(i) ==
    \E casilla \in Casillas :
        \/ /\ ~ DecIsZero(ImporteEnviado(i, casilla))
           /\ EsVacio(CuentaEnviada(i, casilla))
        \/ CuentaAjena(i, casilla)

\* C13: liquidacion_exportar emits the CSV only when the validation of the
\* rows sent produced no finding; with a finding on any row it answers the
\* findings with status 400 and writes no CSV row for any row of the request.
C13_ExportaSoloSinHallazgos ==
    /\ (Respondida /\ respuesta.tipo = "csv") =>
          /\ peticion.vista = "liquidacion_exportar"
          /\ errores = <<>>
          /\ respuesta.status = 200
          /\ Len(respuesta.csv) = Len(FilasPedidas)
    /\ \A i \in IndicesExportar :
          (HayHallazgoDeFila(i) \/ FilaConHallazgoSeguro(i)) =>
              /\ errores # <<>>
              /\ respuesta.status = 400
              /\ respuesta.tipo = "json"
              /\ respuesta.csv = <<>>

\* an export of two rows, the first of them without findings, refused for
\* the findings of the second
C13_Witness ==
    /\ IndicesExportar = {1, 2}
    /\ ~ HayHallazgoDeFila(1)
    /\ HayHallazgoDeFila(2)
    /\ respuesta.status = 400
    /\ respuesta.csv = <<>>

\* C14: every row that liquidacion_validar returns carries a boolean field
\* listo, true when the row has no findings and false when it has some.
C14_FilaLista ==
    \A i \in Indices :
        /\ "listo" \in DOMAIN respuesta.filas[i]
        /\ respuesta.filas[i].listo = ~ HayHallazgoDeFila(i)

\* C15: for a list of n rows _validar_filas_liquidacion returns n row
\* results in the order of the rows, the i-th with indice i (from 0) and the
\* factura_id of the i-th row, and each holds an outcome for all seven slots,
\* also when earlier slots of the row or earlier rows had findings.
C15_UnResultadoPorFila ==
    Validada =>
        /\ Len(filas_resultado) = Len(FilasPedidas)
        /\ \A i \in 1..Len(FilasPedidas) :
              /\ filas_resultado[i].indice = i - 1
              /\ filas_resultado[i].factura_id = FilasPedidas[i].factura_id
              /\ filas_resultado[i].original = FilasPedidas[i]
              /\ DOMAIN filas_resultado[i].casillas = Casillas
              /\ \A casilla \in Casillas :
                    /\ filas_resultado[i].casillas[casilla] # InfoVacia
                    /\ filas_resultado[i].casillas[casilla].naturaleza \in {"D", "C"}
                    /\ casilla \notin RETENCIONES =>
                          filas_resultado[i].casillas[casilla].valor.some

\* two rows validated, the first with a finding on its first slot, both with
\* their results
C15_Witness ==
    /\ Validada
    /\ Len(FilasPedidas) = 2
    /\ HayHallazgoEnCampo(1, "SUBTOTAL")
    /\ FilasPedidas[1].factura_id # FilasPedidas[2].factura_id
    /\ Len(filas_resultado) = 2
    /\ filas_resultado[2].casillas["TOTAL_NETO"].valor.some

\* the payload is a list of row objects whose importes, cuentas and
\* porcentajes are objects
ListaDeObjetos ==
    /\ peticion.filas.lista
    /\ \A i \in 1..Len(FilasPedidas) : FilasPedidas[i].forma = "objeto"

HallazgoDeFormato ==
    [fila |-> JNull, factura_id |-> JNull, campo |-> None, mensaje |-> FORMATO_INVALIDO_MSG]

\* C16: _validar_filas_liquidacion never raises for malformed input: a value
\* that is not a list of row objects (a list with an element that is no
\* object, or with a row whose importes is no object, included) gives one
\* top-level finding and no results; an amount that cannot be parsed counts
\* as zero; an account id that cannot be resolved leaves the slot unresolved
\* with a finding.
C16_NuncaLanza ==
    (Respondida /\ respuesta.detalle = "") =>
        /\ respuesta.excepcion = None
        /\ ~ ListaDeObjetos =>
              /\ errores = <<HallazgoDeFormato>>
              /\ filas_resultado = <<>>

\* the step in which the view answers the request
PasoDe(vista) ==
    /\ peticion.vista = vista
    /\ respuesta = SinRespuesta
    /\ respuesta' # SinRespuesta

DatosSinCambio == UNCHANGED <<proveedores, cuentas_proveedor, facturas_xml, facturas_xls>>

\* C17 as stated: a call of liquidacion_validar and a call of
\* liquidacion_exportar leave the persistent state unchanged: no invoice,
\* provider, catalog entry or element of the database schema is created,
\* modified or deleted.
C17_SinEscrituras ==
    [][ (PasoDe("liquidacion_validar") \/ PasoDe("liquidacion_exportar"))
            => UNCHANGED tablas ]_vars

\* C17: a call of liquidacion_validar leaves the persistent state unchanged;
\* a call of liquidacion_exportar creates, modifies or deletes no invoice,
\* provider or catalog entry, and the one thing it may change in the schema
\* is that the FacturaXLS table, when it lacks the column fecha_documento,
\* gets it: the table is left as it was (the column being there, or the
\* attempt having failed) or has that one column more.
C17_SoloAseguraColumna ==
    [][ /\ PasoDe("liquidacion_validar") => UNCHANGED tablas
        /\ PasoDe("liquidacion_exportar") =>
              /\ DatosSinCambio
              /\ \/ UNCHANGED columnas_facturaxls
                 \/ /\ "fecha_documento" \notin columnas_facturaxls
                    /\ columnas_facturaxls' =
                          columnas_facturaxls \cup {"fecha_documento"} ]_vars

\* an export answered with the CSV document whose call of
\* ensure_fecha_documento_column found the column missing and added it: the
\* table has the column now and the rows of the tables are those of before
C17_Witness ==
    /\ Exportada
    /\ ejecucion = [pc |-> "fin", ensure |-> "columna_creada"]
    /\ proveedores = ProveedoresIniciales
    /\ cuentas_proveedor = CatalogoInicial
    /\ facturas_xml = FacturasXmlIniciales
    /\ facturas_xls = FacturasXlsIniciales
    /\ columnas_facturaxls = ColumnasConFecha

\* the number a reader of the CSV document finds in a column
ColumnaLeida(i, columna) == _parse_decimal(JStr(respuesta.csv[i][columna]), DecZero)

\* a value as it reads once written with two decimals
ConDosDecimales(valor) == _parse_decimal(JStr(_decimal_to_str(valor, 2)), DecZero)

Texto(ent, frac) == NumStr(ent, frac, 2)

\* two results of Decimal operations that are the same value: equal numbers,
\* or the same NaN; an operation that raised has no value
SonIguales(a, b) ==
    /\ ~ DecLanzada(a) /\ ~ DecLanzada(b)
    /\ a.clase # "snan" /\ b.clase # "snan"
    /\ DecEq(a, b)

MismoValor(a, b) ==
    /\ ~ DecLanzada(a)
    /\ ~ DecLanzada(b)
    /\ (a = b \/ SonIguales(a, b))

\* C18: in the CSV export the valor column of each withholding is the slot's
\* computed value multiplied by the sign of the slot's nature, +1 for debit
\* and -1 for credit, so that a credit withholding of 4.00 is written -4.00;
\* the columns Sub total, IVA, INC and Total neto are written without change
\* of sign.
C18_ValorConSigno ==
    Exportada =>
        /\ \A i \in IndicesExportar :
              /\ \A casilla \in RETENCIONES :
                    MismoValor(ColumnaLeida(i, ColumnaValor(casilla)),
                               DecMul(ConDosDecimales(ValorCalculado(i, casilla)),
                                      IF filas_resultado[i].casillas[casilla].naturaleza = "D"
                                      THEN DecInt(1) ELSE DecInt(-1)))
              /\ \A casilla \in {"SUBTOTAL", "IVA", "INC"} :
                    respuesta.csv[i][ColumnaValor(casilla)]
                      = _decimal_to_str(ValorCalculado(i, casilla), 2)
              /\ respuesta.csv[i]["Total neto"]
                   = _decimal_to_str(filas_resultado[i].total_neto, 2)
        /\ FilasPedidas = <<FilaCompleta>> =>
              /\ respuesta.csv[1]["ReteFuente (valor)"] = <<"-">> \o Texto(4, 0)
              /\ respuesta.csv[1]["ReteICA (valor)"] = <<"-">> \o Texto(9, 50)
              /\ respuesta.csv[1]["ReteIva (valor)"] = <<"-">> \o Texto(15, 0)
              /\ respuesta.csv[1]["Sub total"] = Texto(100, 0)
              /\ respuesta.csv[1]["IVA"] = Texto(19, 0)
              /\ respuesta.csv[1]["INC"] = Texto(0, 0)
              /\ respuesta.csv[1]["Total neto"] = Texto(90, 50)

\* the invoice of the tests exported: its credit withholding of 4.00 is
\* written -4.00 and its net total 90.50
C18_Witness ==
    /\ Exportada
    /\ FilasPedidas = <<FilaCompleta>>
    /\ filas_resultado[1].casillas["RETEFUENTE"].naturaleza = "C"
    /\ ValorCalculado(1, "RETEFUENTE") = D4
    /\ respuesta.csv[1]["ReteFuente (valor)"] = <<"-", "4", ".", "0", "0">>
    /\ respuesta.csv[1]["Total neto"] = <<"9", "0", ".", "5", "0">>

(***************************************************************************)
(* Properties of the functions of liquidacion.py                           *)
(***************************************************************************)
Retorno(fn) == retorno.hecho /\ llamada.fn = fn

\* C8: validar_prefijo_para_casilla accepts the account code 231053152007 for
\* the INC slot and for no other: for each of the other six slots it returns
\* a rejection message, the one that says the account is exclusive of INC.
C8_CuentaIncExclusiva ==
    Retorno("validar_prefijo_para_casilla") /\ llamada.codigo = CUENTA_INC =>
        /\ llamada.casilla = "INC" => retorno.valor = None
        /\ llamada.casilla # "INC" =>
              retorno.valor # None /\ retorno.valor = INC_EXCLUSIVA_MSG

\* the code 231053152007 rejected for SUBTOTAL, whose prefix 2310 it has
C8_Witness ==
    /\ Retorno("validar_prefijo_para_casilla")
    /\ llamada.codigo = CUENTA_INC
    /\ llamada.casilla = "SUBTOTAL"
    /\ StartsWith(llamada.codigo, P2310)
    /\ retorno.valor = INC_EXCLUSIVA_MSG

Divisor(modo) == IF modo = "PORMIL" THEN DecInt(1000) ELSE DecInt(100)

\* C9: calcular_retencion returns base * percentage / 1000 when the entry's
\* mode is PORMIL and base * percentage / 100 when it is PORCENTAJE or unset,
\* for every base, negative ones included, and every percentage; an entry
\* without percentage gives percentage 0 and value 0.
C9_CalcularRetencion ==
    Retorno("calcular_retencion") =>
        IF llamada.catalogo.porcentaje.some
        THEN /\ MismoValor(retorno.valor.porcentaje, llamada.catalogo.porcentaje.d)
             /\ MismoValor(DecMul(retorno.valor.valor, Divisor(llamada.catalogo.modo_calculo)),
                           DecMul(llamada.base, llamada.catalogo.porcentaje.d))
        ELSE /\ SonIguales(retorno.valor.porcentaje, DecZero)
             /\ SonIguales(retorno.valor.valor, DecZero)

\* x rounded to hundredths, a half of a hundredth going away from zero
CentesimasMitadArriba(mag, k) ==
    IF k > Len(mag) THEN <<>>
    ELSE IF mag[Len(mag) - k + 1] >= 5
    THEN CifrasSuma(SubSeq(mag, 1, Len(mag) - k), <<1>>)
    ELSE SubSeq(mag, 1, Len(mag) - k)

MitadArriba(x) ==
    IF ~ ExpMenor(x.e, ExpDe(-2)) THEN x
    ELSE DecDe(x.neg,
               CentesimasMitadArriba(x.c, ExpHasta(ExpResta(ExpDe(-2), x.e), Len(x.c))),
               ExpDe(-2))

\* C19: for every decimal x, _parse_decimal(_decimal_to_str(x, 2)) is x
\* quantized to two decimal places with halves rounded up: the rendering
\* returns a text for every x and the text reads back as that value.
C19_IdaYVuelta ==
    /\ Retorno("_decimal_to_str") => ExcepcionDeTexto(retorno.valor) = None
    /\ Retorno("_parse_decimal") => SonIguales(retorno.valor, MitadArriba(llamada.de))


(***************************************************************************)
(* Properties of the uploads                                               *)
(***************************************************************************)
\* every spreadsheet invoice of the company is active exactly when an XML
\* invoice of the company has its CUFE
Sincronizada(empresa) ==
    \A f \in facturas_xls :
        f.empresa_id = empresa =>
            (f.activo <=> \E x \in facturas_xml :
                              x.empresa_id = empresa /\ x.cufe = f.cufe)

CargaCompleta == peticion.vista = "dashboard" /\ respuesta = Redireccion

\* the user's request or call is about the company
PeticionDe(empresa) ==
    \/ peticion.vista = "dashboard" /\ sesion.empresa_actual_id = empresa
    \/ llamada.fn = "sincronizar_estado_facturas_xls" /\ llamada.empresa = empresa

\* what the process of the user's request did was a completed
\* synchronisation of the company: an upload answered with the redirect, or
\* a call of sincronizar_estado_facturas_xls that returned
SincronizoLaPeticion(empresa) ==
    \/ CargaCompleta /\ sesion.empresa_actual_id = empresa
    \/ Retorno("sincronizar_estado_facturas_xls") /\ llamada.empresa = empresa

\* the concurrent request is about the company
ConcurrenteDe(empresa) ==
    /\ concurrente.peticion.vista = "dashboard"
    /\ sesion.empresa_actual_id = empresa

\* the same of the process of the concurrent request
SincronizoLaConcurrente(empresa) ==
    /\ ConcurrenteDe(empresa)
    /\ concurrente.respuesta = Redireccion

\* C20: once sincronizar_estado_facturas_xls(E) has completed, and so once
\* any upload of a spreadsheet or of a ZIP for the company E has completed,
\* in whatever order the uploads come, every FacturaXLS of E has activo true
\* exactly when a FacturaXML of E with the same CUFE exists: when no process
\* is at work, a synchronisation of E has completed and every request or
\* call about E ended with a completed synchronisation of E, the flags of E
\* agree with the XML invoices of E.
C20_ActivoSiHayXml ==
    \A empresa \in Empresas :
        ( /\ TodoEnReposo
          /\ PeticionDe(empresa) => SincronizoLaPeticion(empresa)
          /\ ConcurrenteDe(empresa) => SincronizoLaConcurrente(empresa)
          /\ SincronizoLaPeticion(empresa) \/ SincronizoLaConcurrente(empresa) )
            => Sincronizada(empresa)

(***************************************************************************)
(* Properties of the catalog, the prefixes and the slots                   *)
(***************************************************************************)
\* the account chosen for the slot is the id of an inactive catalog entry
CuentaInactiva(i, casilla) ==
    /\ ~ EsVacio(CuentaEnviada(i, casilla))
    /\ IntFromJ(CuentaEnviada(i, casilla)).ok
    /\ \E c \in cuentas_proveedor :
          EntDe(c.id) = IntFromJ(CuentaEnviada(i, casilla)).n /\ ~ c.activo

\* the provider of the row has entries for the slot and all are inactive
SoloInactivas(i, casilla) ==
    /\ OpcionesActivas(FilasPedidas[i].proveedor_id, casilla) = {}
    /\ \E c \in cuentas_proveedor :
          JInt(c.proveedor_id) = FilasPedidas[i].proveedor_id /\ c.casilla = casilla

CatalogosRespondidos ==
    /\ peticion.vista = "liquidacion_catalogos"
    /\ respuesta.status = 200

\* C21: a catalog entry with activo false never participates: it does not
\* count as an option of its provider and slot, choosing its id for a slot
\* gives a finding and leaves the slot unresolved, and liquidacion_catalogos
\* does not list it.
C21_InactivaNoParticipa ==
    /\ \A i \in Indices : \A casilla \in Casillas :
          /\ (SoloInactivas(i, casilla) /\ ~ DecIsZero(ImporteEnviado(i, casilla))) =>
                HayHallazgo(i, casilla, CASILLA_RULES[casilla].mensaje_sin_opciones)
          /\ CuentaInactiva(i, casilla) =>
                /\ HayHallazgo(i, casilla, CUENTA_PROVEEDOR_MSG)
                /\ filas_resultado[i].casillas[casilla].catalogo = NingunCatalogo
          /\ ~ filas_resultado[i].casillas[casilla].catalogo.activo =>
                filas_resultado[i].casillas[casilla].catalogo = NingunCatalogo
    /\ CatalogosRespondidos =>
          \A clave \in ClavesDeCatalogo :
              \A k \in 1..Len(respuesta.catalogos[clave]) :
                  \E c \in cuentas_proveedor :
                      /\ c.id = respuesta.catalogos[clave][k].id
                      /\ c.activo
                      /\ c.proveedor_id = peticion.proveedor_id
                      /\ CATALOGO_RESPONSE_KEYS[c.casilla] = clave

\* the inactive TOTAL_NETO entry of provider 1 chosen in a row of provider 1
\* and refused
C21_Witness ==
    \E i \in Indices :
        /\ FilasPedidas[i].proveedor_id = JInt(1)
        /\ CuentaEnviada(i, "TOTAL_NETO") = JInt(13)
        /\ HayHallazgo(i, "TOTAL_NETO", CUENTA_PROVEEDOR_MSG)
        /\ filas_resultado[i].casillas["TOTAL_NETO"].catalogo = NingunCatalogo


\* the prefixes of the account family of a slot
PrefijosDeFamilia(casilla) ==
    CASE casilla = "SUBTOTAL" -> {P2310, P2432}
      [] casilla = "IVA" -> {P2408}
      [] casilla = "RETEFUENTE" -> {P2365}
      [] casilla = "RETEICA" -> {P2368}
      [] casilla = "RETEIVA" -> {P2367}
      [] casilla = "TOTAL_NETO" -> {P2335}
      [] OTHER -> {}

Excluidas(casilla) == IF casilla = "SUBTOTAL" THEN {CUENTA_INC} ELSE {}

EmpiezaPor(codigo, prefijos) == \E pref \in prefijos : StartsWith(codigo, pref)

LlamadaNoInc ==
    /\ Retorno("validar_prefijo_para_casilla")
    /\ llamada.casilla # "INC"
    /\ llamada.codigo # <<>>

\* C22 as stated: for every slot other than INC, validar_prefijo_para_casilla
\* accepts a non-empty account code only if it starts with a prefix of the
\* slot's account family (2310 or 2432, 2408, 2365, 2368, 2367, 2335) and is
\* not in the slot's exclusion set, and rejects every other code.
C22_SoloPrefijosDeFamilia ==
    LlamadaNoInc =>
        (retorno.valor = None <=>
            /\ EmpiezaPor(llamada.codigo, PrefijosDeFamilia(llamada.casilla))
            /\ llamada.codigo \notin Excluidas(llamada.casilla))

\* C22: for every slot other than INC, validar_prefijo_para_casilla accepts
\* a non-empty account code exactly when it starts with a prefix of the
\* slot's account family or with one of the markers "N/A", "na", "BSP",
\* "bsp" written so, and is not in the slot's exclusion set; it rejects
\* every other code.
C22_PrefijosDeLaCasilla ==
    LlamadaNoInc =>
        (retorno.valor = None <=>
            /\ EmpiezaPor(llamada.codigo,
                          PrefijosDeFamilia(llamada.casilla)
                            \cup {S_NA, S_na, S_BSP, S_bsp})
            /\ llamada.codigo \notin Excluidas(llamada.casilla))

\* a code that begins with the marker "na" accepted for RETEICA
C22_Witness ==
    /\ LlamadaNoInc
    /\ llamada.casilla = "RETEICA"
    /\ llamada.codigo = <<"n", "a", "1">>
    /\ retorno.valor = None


\* the account field of the slot holds a marker of "not applicable"
CuentaNoAplica(i, casilla) ==
    /\ CuentaEnviada(i, casilla).t = "str"
    /\ Upper(Strip(CuentaEnviada(i, casilla).s)) \in {S_NA, S_NA2, S_BSP}

\* C23: when the account field of a slot holds a marker of "not applicable"
\* ("N/A", "na", "bsp", in any case), the validator takes the slot as having
\* no account chosen: it emits no CUENTA_PROVEEDOR_MSG finding for the slot
\* and the outcome of the slot has no resolved account.
C23_MarcadorSinCuenta ==
    \A i \in Indices : \A casilla \in Casillas :
        CuentaNoAplica(i, casilla) =>
            /\ ~ HayHallazgo(i, casilla, CUENTA_PROVEEDOR_MSG)
            /\ filas_resultado[i].casillas[casilla].catalogo = NingunCatalogo


\* the entry that the account field of the slot names, when it exists, is
\* active, is of the row's provider and carries the slot
Elegida(i, casilla) ==
    BuscarEntero(OpcionesActivas(FilasPedidas[i].proveedor_id, casilla),
                 IntFromJ(CuentaEnviada(i, casilla)))

NaturalezaDistinta(i, casilla) ==
    /\ Elegida(i, casilla) # NingunCatalogo
    /\ Elegida(i, casilla).naturaleza # CASILLA_RULES[casilla].naturaleza

PrefijoRechazado(i, casilla) ==
    validar_prefijo_para_casilla(casilla, Elegida(i, casilla).codigo) # None

\* C24 as stated: whenever the account chosen for a slot resolves (it exists,
\* is of the row's provider and carries the slot) and its nature differs from
\* the nature the slot requires, the NATURALEZA_ERROR_MSG finding is emitted
\* for the slot, whether or not the check of the account code's prefix failed
\* as well.
C24_NaturalezaSiempre ==
    \A i \in Indices : \A casilla \in Casillas :
        NaturalezaDistinta(i, casilla) =>
            HayHallazgo(i, casilla, NATURALEZA_ERROR_MSG)

\* C24: whenever the account chosen for a slot resolves and its nature
\* differs from the nature the slot requires, the slot gets a finding and
\* stays unresolved: the NATURALEZA_ERROR_MSG finding when the account code
\* passes the check of the prefix, and only the finding of that check when
\* it does not.
C24_NaturalezaSiPrefijoPasa ==
    \A i \in Indices : \A casilla \in Casillas :
        NaturalezaDistinta(i, casilla) =>
            /\ filas_resultado[i].casillas[casilla].catalogo = NingunCatalogo
            /\ IF PrefijoRechazado(i, casilla)
               THEN /\ HayHallazgo(i, casilla,
                          validar_prefijo_para_casilla(casilla, Elegida(i, casilla).codigo))
                    /\ ~ HayHallazgo(i, casilla, NATURALEZA_ERROR_MSG)
               ELSE HayHallazgo(i, casilla, NATURALEZA_ERROR_MSG)

\* the RETEIVA entry of provider 1 with a 2310 code and debit nature chosen:
\* the finding of the prefix alone
C24_Witness ==
    \E i \in Indices :
        /\ CuentaEnviada(i, "RETEIVA") = JInt(12)
        /\ NaturalezaDistinta(i, "RETEIVA")
        /\ PrefijoRechazado(i, "RETEIVA")
        /\ HayHallazgo(i, "RETEIVA", CASILLA_ERROR_MSG)
        /\ ~ HayHallazgo(i, "RETEIVA", NATURALEZA_ERROR_MSG)


\* the number of findings on the slot's field of the i-th row
NumHallazgos(i, casilla) ==
    Cardinality({ k \in 1..Len(errores) :
                    /\ errores[k].fila = JInt(i - 1)
                    /\ errores[k].campo = CASILLA_FIELD_MAP[casilla] })

\* the percentage the request carries for a withholding slot of its i-th row
PorcentajeEnviado(i, casilla) ==
    _parse_decimal(FilasPedidas[i].porcentajes[CASILLA_FIELD_MAP[casilla]], DecZero)

\* a withholding slot of the i-th row that was left without resolved account
RetencionSinCuenta(i, casilla) ==
    /\ casilla \in RETENCIONES
    /\ filas_resultado[i].casillas[casilla].catalogo = NingunCatalogo

\* the findings the checks of the amount and of the account give to a slot
\* left without account: one for an amount with nothing to post it to, one
\* for an account that was chosen and refused
HallazgosDeImporteYCuenta(i, casilla) ==
    (IF /\ ~ DecIsZero(ImporteEnviado(i, casilla))
        /\ \/ OpcionesActivas(FilasPedidas[i].proveedor_id, casilla) = {}
           \/ EsVacio(CuentaEnviada(i, casilla))
     THEN 1 ELSE 0)
    + (IF EsVacio(CuentaEnviada(i, casilla)) THEN 0 ELSE 1)

\* C25: a withholding slot left without resolved account has the amount of
\* the request as its value and the percentage of the request (0 if absent) as
\* its percentage, that amount is what the row subtracts in its net total, and
\* the slot has no finding other than those of the amount and of the account.
C25_RetencionDigitada ==
    \A i \in Indices : \A casilla \in RETENCIONES :
        RetencionSinCuenta(i, casilla) =>
            /\ filas_resultado[i].casillas[casilla].valor = Algun(ImporteEnviado(i, casilla))
            /\ filas_resultado[i].casillas[casilla].porcentaje
                   = Algun(PorcentajeEnviado(i, casilla))
            /\ filas_resultado[i][CASILLA_FIELD_MAP[casilla]] = ImporteEnviado(i, casilla)
            /\ filas_resultado[i].total_neto = NetoDeFila(filas_resultado[i])
            /\ NumHallazgos(i, casilla) = HallazgosDeImporteYCuenta(i, casilla)

\* a withholding typed by hand with a percentage, no account chosen, on a
\* provider that has options for it: the amount is kept and subtracted
C25_Witness ==
    \E i \in Indices : \E casilla \in RETENCIONES :
        /\ RetencionSinCuenta(i, casilla)
        /\ EsVacio(CuentaEnviada(i, casilla))
        /\ ~ DecIsZero(ImporteEnviado(i, casilla))
        /\ ~ DecIsZero(PorcentajeEnviado(i, casilla))
        /\ filas_resultado[i][CASILLA_FIELD_MAP[casilla]] = ImporteEnviado(i, casilla)
        /\ HayHallazgo(i, casilla, CAMPO_OBLIGATORIO_MSG)


\* the rows of a request that either view validated
IndicesValidados == Indices \cup IndicesExportar

\* the findings of the i-th row, in the order they were appended
HallazgosDeLaFila(i) == SelectSeq(errores, LAMBDA e : e.fila = JInt(i - 1))

\* the same findings told of the i-th row of a list
ConFila(es, i) == [ k \in 1..Len(es) |-> [es[k] EXCEPT !.fila = JInt(i - 1)] ]

\* the outcome of a call that validates one row alone, told as the outcome of
\* the i-th row of a list
ResultadoDeSola(sola, i) ==
    IF sola.excepcion = None /\ Len(sola.filas_resultado) = 1
    THEN [ resultado |-> [sola.filas_resultado[1] EXCEPT !.indice = i - 1],
           errs      |-> ConFila(sola.errores, i) ]
    ELSE [ resultado |-> None, errs |-> <<>> ]

\* C26: the rows of one validation are independent: the slots, the net total
\* and the findings of each row of a validated list are those of a validation
\* of that row alone, with only the row index changed; hence the order of the
\* rows changes nothing but the index.
C26_FilasIndependientes ==
    \A i \in IndicesValidados :
        ResultadoDeSola(
            _validar_filas_liquidacion([lista |-> TRUE, items |-> <<FilasPedidas[i]>>],
                                       EmpresaActual), i)
          = [ resultado |-> filas_resultado[i], errs |-> HallazgosDeLaFila(i) ]

\* two rows of different providers, the first one with an account of the
\* second row's provider chosen: the catalog index holds that account only
\* because of the second row, and the first row is refused as it is alone
C26_Witness ==
    /\ Indices = 1..2
    /\ FilasPedidas[1].proveedor_id = JInt(1)
    /\ FilasPedidas[2].proveedor_id = JInt(2)
    /\ CuentaEnviada(1, "SUBTOTAL") = JInt(15)
    /\ HayHallazgo(1, "SUBTOTAL", CUENTA_PROVEEDOR_MSG)
    /\ filas_resultado[2].indice = 1
    /\ filas_resultado[2].casillas["SUBTOTAL"].catalogo # NingunCatalogo


\* the number of findings with this message on the slot's field of the i-th row
NumHallazgosCon(i, casilla, mensaje) ==
    Cardinality({ k \in 1..Len(errores) :
                    /\ errores[k].fila = JInt(i - 1)
                    /\ errores[k].campo = CASILLA_FIELD_MAP[casilla]
                    /\ errores[k].mensaje = mensaje })

\* C27: a validation gives a slot of a row at most one finding that an
\* account is required, TOTAL_NETO included when the amount the request
\* carries for it and the net total of the row are both other than zero and no
\* account was chosen.
C27_UnSoloObligatorio ==
    \A i \in IndicesValidados : \A casilla \in Casillas :
        NumHallazgosCon(i, casilla, CAMPO_OBLIGATORIO_MSG) <= 1


\* the amount _serializar_fila_validada reports for a slot, before rounding
ImporteInformado(i, casilla) ==
    DecOr(filas_resultado[i].casillas[casilla].valor,
          filas_resultado[i].casillas[casilla].monto)

\* C28: for every row of the result and every withholding slot, the amount
\* the row subtracts in its net total is the amount the serialised row
\* reports under importes for that slot, an account that resolves without a
\* percentage included.
C28_RetenidoEsInformado ==
    \A i \in Indices : \A casilla \in RETENCIONES :
        /\ SonIguales(filas_resultado[i][CASILLA_FIELD_MAP[casilla]], ImporteInformado(i, casilla))
        /\ respuesta.filas[i].importes[CASILLA_FIELD_MAP[casilla]]
               = _decimal_to_str(filas_resultado[i][CASILLA_FIELD_MAP[casilla]], 2)


(***************************************************************************)
(* Properties of procesar_xml                                              *)
(***************************************************************************)
\* the documents among the entries of a ZIP
Documentos == { e \in EntradasZip : e.clase = "factura" }

\* the tables as procesar_xml finds them
TablasActuales ==
    [ proveedores |-> proveedores, facturas_xml |-> facturas_xml, excepcion |-> None ]

UnaFacturaPorCufe ==
    \A x, y \in facturas_xml :
        x.empresa_id = y.empresa_id /\ x.cufe = y.cufe => x = y

UnProveedorPorNit ==
    \A p, q \in proveedores :
        p.empresa_id = q.empresa_id /\ p.nit = q.nit => p = q

\* C29: procesar_xml is idempotent per (company, CUFE): on a document whose
\* CUFE the company already has it leaves the FacturaXML table as it is and
\* every stored Proveedor as it is (the first ingestion wins), a second call
\* on any document changes nothing, and whatever was processed there is at
\* most one FacturaXML per (company, CUFE) and one Proveedor per (company, NIT).
C29_PrimeraIngestionGana ==
    /\ UnaFacturaPorCufe
    /\ UnProveedorPorNit
    /\ \A e \in Documentos : \A empresa \in Empresas :
          /\ ExisteXml(facturas_xml, empresa, e.cufe) =>
                /\ procesar_xml(e, empresa, TablasActuales).facturas_xml = facturas_xml
                /\ proveedores \subseteq procesar_xml(e, empresa, TablasActuales).proveedores
          /\ procesar_xml(e, empresa, procesar_xml(e, empresa, TablasActuales))
                = procesar_xml(e, empresa, TablasActuales)

\* a ZIP with two documents of the same CUFE and NIT that differ in name,
\* description and total was processed: the first one is what is stored
C29_Witness ==
    /\ peticion.vista = "dashboard"
    /\ peticion.carga = "upload_zip"
    /\ Len(peticion.archivo) = 2
    /\ peticion.archivo[1].clase = "factura"
    /\ peticion.archivo[2].clase = "factura"
    /\ peticion.archivo[1].cufe = peticion.archivo[2].cufe
    /\ peticion.archivo[1].nit = peticion.archivo[2].nit
    /\ peticion.archivo[1].nombre # peticion.archivo[2].nombre
    /\ peticion.archivo[1].total # peticion.archivo[2].total
    /\ respuesta = Redireccion
    /\ \E x \in facturas_xml :
          /\ x.empresa_id = EmpresaActual
          /\ x.cufe = peticion.archivo[1].cufe
          /\ x.descripcion = peticion.archivo[1].descripcion
          /\ x.total = _parse_decimal(peticion.archivo[1].total, DecZero)
          /\ \E q \in proveedores :
                /\ q.id = x.proveedor_id
                /\ q.nit = peticion.archivo[1].nit
                /\ q.nombre = peticion.archivo[1].nombre


(***************************************************************************)
(* Properties of the session                                               *)
(***************************************************************************)
VistasDeDatos ==
    {"dashboard", "liquidacion_catalogos", "liquidacion_validar", "liquidacion_exportar"}

\* the view did not send the user away: it answered with data of the company
\* of the session
Servida ==
    /\ respuesta # SinRespuesta
    /\ respuesta # RedireccionA("login")
    /\ respuesta # RedireccionA("seleccionar_empresa")
    /\ respuesta.detalle # SELECCIONA_EMPRESA_MSG

\* the company of the session is active and the user has a permission on it
TienePermiso ==
    \E e \in empresas :
        /\ e.id = sesion.empresa_actual_id
        /\ e.activo
        /\ Permiso(Usuario, e.id) \in permisos

\* C30: whatever permissions were granted and revoked and whatever companies
\* were chosen before, a request to the dashboard, the catalog, the
\* validation or the export is answered with data of a company only if, when
\* the request is served, the company is active and the user has a
\* PermisoEmpresa on it; and a user who has no permission at all and comes to
\* choose a company is logged out.
C30_SoloConPermiso ==
    [][ /\ \A vista \in VistasDeDatos :
              PasoDe(vista) /\ Servida' => TienePermiso
        /\ ( /\ PasoDe("seleccionar_empresa")
             /\ \A e \in Empresas : Permiso(Usuario, e) \notin permisos )
               => ~ sesion'.autenticado ]_vars

=============================================================================
